---- MODULE Spec2Model ----
(***************************************************************************)
(* A model of pdf-coordinate-mapper: the coordinate fill routine (fillPdf), *)
(* AcroForm detection and filling (getFormFields, fillFormPdf) and the      *)
(* preview / download handlers of the two example applications.            *)
(***************************************************************************)
EXTENDS Integers, Sequences, FiniteSets, TLC

VARIABLES
    \* ---- fillPdf (src/fillPdf.ts) ----
    fpPages,      \* page heights of the loaded document, in page order
    fpMappings,   \* the FieldMapping[] argument
    fpData,       \* the ModelData argument: own keys -> value
    fpOptions,    \* the FillOptions argument
    fpPc,         \* "ready" | "saved" | "threw"
    fpDraws,      \* the drawText calls made, in call order
    \* ---- getFormFields (src/index.ts) ----
    gfDoc,        \* the loaded document
    gfPc,         \* "ready" | "returned" | "threw"
    gfResult,     \* the FormFieldInfo[] returned
    \* ---- fillFormPdf (src/index.ts) ----
    ffDoc,        \* the loaded source document
    ffData,       \* Object.entries(data), in entry order
    ffFieldMap,   \* the fieldMap argument: <<>> (omitted) or <<map>>
    ffFlattenArg, \* the flatten argument: <<>> (omitted) or <<b>>
    ffPc,         \* "ready" | "loop" | "saved" | "threw"
    ffI,          \* 1-based index of the next entry of the loop
    ffForm,       \* the form's fields as the loop has left them
    ffCalls,      \* per entry processed: what the iteration did
    ffFlattens,   \* number of form.flatten() calls made
    ffOut,        \* the fields of the saved document
    \* ---- FormFillApp (form-fill-example/src/FormFillApp.tsx) ----
    faPdf,        \* pdfSource: <<>> (null) or <<doc>>
    faFormFields, \* formFields
    faPreviewUrl, \* previewUrl: 0 (null) or the id of an object URL
    faFlatten,    \* flattenOnDownload
    faError,      \* error: "none" (null) | "preview" | "note" | "failed"
    faDetecting,  \* documents of the getFormFields calls still pending
    faPreviews,   \* handlePreview calls awaiting fillFormPdf, with their closures
    faDownloads,  \* handleDownload calls awaiting fillFormPdf, with their closures
    faUrls,       \* per object URL created for a preview: times revoked
    faSaved,      \* number of files handed to the browser for download
    faFinished,   \* number of handleDownload calls that have run to their end
    faLast,       \* the handleDownload call that ended last
    faClicks,     \* loads, Preview clicks and Download clicks so far
    \* ---- App (example/src/App.tsx) ----
    apPdf,            \* pdfSource: <<>> (null) or <<doc>>
    apFormFields,     \* formFields
    apActiveTab,      \* activeTab: "mapper" | "fill" | "form"
    apFormPreviewUrl, \* formPreviewUrl: 0 (null) or the id of an object URL
    apDetecting,      \* documents of the getFormFields calls still pending
    apFormPreviews,   \* handleFormPreview calls awaiting fillFormPdf
    apFormDownloads,  \* handleFormDownload calls awaiting fillFormPdf
    apUrls,           \* per object URL created for a preview: times revoked
    apSaved,          \* number of files handed to the browser for download
    apLast,           \* the handleFormDownload call that ended last
    apClicks,         \* loads, Preview clicks and Download clicks so far
    \* ---- PdfCoordinateMapper (src/PdfCoordinateMapper.tsx) ----
    pmFieldNames,   \* prop fieldNames
    pmScale,        \* prop scale, a ratio [num, den]
    pmDocPages,     \* number of pages of the document given as pdfSource
    pmMappings,     \* mappings
    pmNumPages,     \* numPages
    pmCurrentPage,  \* currentPage
    pmSelectedIdx,  \* selectedIdx: <<>> (null) or <<i>>, i counted from 0
    pmActiveField,  \* activeField
    pmReported,     \* the argument of the last onChange call: <<>> or <<list>>
    pmSaved,        \* the list last passed to onSave: "none", "current" or "stale"
    pmLastClick,    \* the click on the page element handled by the last step
    pmLastRemove,   \* the index removeMapping was called with in the last step
    \* ---- loadPdfBytes (fillPdf.ts and index.ts) ----
    ldLoader,   \* which copy runs: "fillPdf" or "index"
    ldSource,   \* parameter source: an ArrayBuffer or a string
    ldPc,       \* promise state: "ready" | "resolved" | "rejected"
    ldBytes,    \* the Uint8Array the promise resolves with
    ldFetches,  \* the arguments of the fetch calls made
    \* ---- downloadFilledPdf (src/downloadPdf.ts) ----
    dlSource,    \* parameter pdfSource
    dlMappings,  \* parameter mappings
    dlData,      \* parameter data
    dlFilename,  \* parameter filename: <<>> (omitted) or <<name>>
    dlPc,        \* "ready" | "pending" (awaiting fillPdf) | "resolved" | "rejected"
    dlFilled,    \* what the fillPdf call settled with
    dlLog,       \* the browser calls made, in order
    dlResult,    \* the bytes the promise resolves with: <<>> or <<bytes>>
    \* ---- a routine called again with the inputs of its first call ----
    rpCalls,      \* calls of the routine started so far
    rpPrevDraws,  \* the drawText calls of the previous fillPdf call: <<>> or <<list>>
    rpPrevCalls,  \* the setter calls of the previous fillFormPdf call: <<>> or <<list>>
    \* ---- FormFillApp: the values typed into the form ----
    faFormData    \* formData: a function from its keys to strings

fillVars == <<fpPages, fpMappings, fpData, fpOptions, fpPc, fpDraws>>

detectVars == <<gfDoc, gfPc, gfResult>>

formVars == <<ffDoc, ffData, ffFieldMap, ffFlattenArg, ffPc, ffI, ffForm,
              ffCalls, ffFlattens, ffOut>>

ffaVars == <<faPdf, faFormFields, faPreviewUrl, faFlatten, faError, faDetecting,
             faPreviews, faDownloads, faUrls, faSaved, faFinished, faLast,
             faClicks>>

appVars == <<apPdf, apFormFields, apActiveTab, apFormPreviewUrl, apDetecting,
             apFormPreviews, apFormDownloads, apUrls, apSaved, apLast, apClicks>>

mapperVars == <<pmFieldNames, pmScale, pmDocPages, pmMappings, pmNumPages,
                pmCurrentPage, pmSelectedIdx, pmActiveField, pmReported, pmSaved,
                pmLastClick, pmLastRemove>>

loadVars == <<ldLoader, ldSource, ldPc, ldBytes, ldFetches>>

downloadVars == <<dlSource, dlMappings, dlData, dlFilename, dlPc, dlFilled, dlLog,
                  dlResult>>

repeatVars == <<rpCalls, rpPrevDraws, rpPrevCalls>>

formDataVars == <<faFormData>>

vars == <<fillVars, detectVars, formVars, ffaVars, appVars, mapperVars, loadVars, downloadVars, repeatVars, formDataVars>>

----------------------------------------------------------------------------
(* JavaScript values of the ModelData value type, plus the function values *)
(* a property read can find on Object.prototype.                           *)

StrV(s) == [t |-> "string", s |-> s, n |-> 0, b |-> FALSE]
NumV(n) == [t |-> "number", s |-> "", n |-> n, b |-> FALSE]
BoolV(b) == [t |-> "boolean", s |-> "", n |-> 0, b |-> b]
NullV == [t |-> "null", s |-> "", n |-> 0, b |-> FALSE]
UndefinedV == [t |-> "undefined", s |-> "", n |-> 0, b |-> FALSE]
FunctionV == [t |-> "function", s |-> "function Object() { [native code] }", n |-> 0, b |-> FALSE]

\* String(value)
String(v) ==
    CASE v.t = "string" -> v.s
      [] v.t = "number" -> ToString(v.n)
      [] v.t = "boolean" -> (IF v.b THEN "true" ELSE "false")
      [] v.t = "null" -> "null"
      [] v.t = "undefined" -> "undefined"
      [] OTHER -> v.s

\* value === undefined || value === null
IsUndefined(v) == v.t = "undefined"
IsFalsy(v) ==
    \/ v.t = "undefined" \/ v.t = "null"
    \/ v.t = "string" /\ v.s = ""
    \/ v.t = "number" /\ v.n = 0
    \/ v.t = "boolean" /\ ~v.b
IsNullish(v) == v.t = "undefined" \/ v.t = "null"

\* Property names every plain object inherits from Object.prototype.
ProtoKeys == {"constructor"}

\* data[key] on a plain object: an own property, else an inherited one,
\* else undefined.
GetProp(obj, key) ==
    IF key \in DOMAIN obj THEN obj[key]
    ELSE IF key \in ProtoKeys THEN FunctionV
    ELSE UndefinedV

\* The arrays over S of length at most n.
SeqsUpTo(S, n) == UNION {[1..k -> S] : k \in 0..n}

\* An optional number: <<>> is undefined, <<n>> is n.  a ?? b
Coalesce(opt, dflt) == IF opt = <<>> THEN dflt ELSE opt[1]

----------------------------------------------------------------------------
(* The PDF document and its AcroForm, as the routines of index.ts use it   *)
(* through pdf-lib.  A field is a record; an optional string is <<>> or    *)
(* <<s>>.                                                                  *)

Field(name, kind, text, checked, selected, options, maxLen) ==
    [name |-> name, kind |-> kind, text |-> text, checked |-> checked,
     selected |-> selected, options |-> options, maxLen |-> maxLen]

TextField(name, text, maxLen) == Field(name, "text", text, FALSE, <<>>, <<>>, maxLen)
CheckBox(name, checked) == Field(name, "checkbox", <<>>, checked, <<>>, <<>>, <<>>)
Dropdown(name, options, selected) == Field(name, "dropdown", <<>>, FALSE, selected, options, <<>>)
RadioGroup(name, options, selected) == Field(name, "radio", <<>>, FALSE, selected, options, <<>>)
OtherField(name) == Field(name, "other", <<>>, FALSE, <<>>, <<>>, <<>>)

\* acroForm: "none" (no AcroForm entry), "ok", or "broken" (an AcroForm
\* entry pdfDoc.getForm() cannot use, so that it throws).
Doc(acroForm, fields, flattenThrows) ==
    [acroForm |-> acroForm, fields |-> fields, flattenThrows |-> flattenThrows]

NoDoc == Doc("none", <<>>, FALSE)

Range(f) == {f[i] : i \in DOMAIN f}

\* pdfDoc.getForm(); form.getFields()
getForm(doc) ==
    IF doc.acroForm = "broken"
    THEN [threw |-> TRUE, fields |-> <<>>]
    ELSE [threw |-> FALSE, fields |-> doc.fields]

\* form.getField(name): the index of the field, 0 when it throws
getField(fields, name) ==
    IF \E i \in DOMAIN fields : fields[i].name = name
    THEN CHOOSE i \in DOMAIN fields :
           /\ fields[i].name = name
           /\ \A j \in DOMAIN fields : fields[j].name = name => i <= j
    ELSE 0

----------------------------------------------------------------------------
(* The state of a routine that a specification does not exercise. *)

FillIdle ==
    /\ fpPages = <<>> /\ fpMappings = <<>> /\ fpData = <<>>
    /\ fpOptions = [defaultFontSize |-> <<>>]
    /\ fpPc = "idle" /\ fpDraws = <<>>

DetectIdle == gfDoc = NoDoc /\ gfPc = "idle" /\ gfResult = <<>>

FormIdle ==
    /\ ffDoc = NoDoc /\ ffData = <<>> /\ ffFieldMap = <<>> /\ ffFlattenArg = <<>>
    /\ ffPc = "idle" /\ ffI = 1 /\ ffForm = <<>> /\ ffCalls = <<>>
    /\ ffFlattens = 0 /\ ffOut = [fields |-> <<>>, flattened |-> FALSE]

NoCall == [flatten |-> FALSE, calls |-> 0, outcome |-> "none", first |-> "none"]

FfaIdle ==
    /\ faPdf = <<>> /\ faFormFields = <<>> /\ faPreviewUrl = 0
    /\ faFlatten = FALSE /\ faError = "idle" /\ faDetecting = <<>>
    /\ faPreviews = <<>> /\ faDownloads = <<>> /\ faUrls = <<>>
    /\ faSaved = 0 /\ faFinished = 0 /\ faLast = NoCall
    /\ faClicks = 0

AppIdle ==
    /\ apPdf = <<>> /\ apFormFields = <<>> /\ apActiveTab = "idle"
    /\ apFormPreviewUrl = 0 /\ apDetecting = <<>> /\ apFormPreviews = <<>>
    /\ apFormDownloads = <<>> /\ apUrls = <<>> /\ apSaved = 0
    /\ apLast = NoCall /\ apClicks = 0

NoClick == [dx |-> 0, dy |-> 0, added |-> FALSE]

PmIdle ==
    /\ pmFieldNames = <<>> /\ pmScale = [num |-> 1, den |-> 1] /\ pmDocPages = 0
    /\ pmMappings = <<>> /\ pmNumPages = 0 /\ pmCurrentPage = 0
    /\ pmSelectedIdx = <<>> /\ pmActiveField = "" /\ pmReported = <<>>
    /\ pmSaved = "none" /\ pmLastClick = NoClick /\ pmLastRemove = <<>>

LoadIdle ==
    /\ ldLoader = "none" /\ ldSource = <<>> /\ ldPc = "idle" /\ ldBytes = <<>>
    /\ ldFetches = <<>>

DownloadIdle ==
    /\ dlSource = <<>> /\ dlMappings = <<>> /\ dlData = <<>> /\ dlFilename = <<>>
    /\ dlPc = "idle" /\ dlFilled = <<>> /\ dlLog = <<>> /\ dlResult = <<>>

RepeatIdle == rpCalls = 1 /\ rpPrevDraws = <<>> /\ rpPrevCalls = <<>>

FormDataIdle == faFormData = <<>>

----------------------------------------------------------------------------
(* fillPdf *)

DefaultFontSize == 12

\* const { defaultFontSize = 12 } = options
defaultFontSizeIgnored(options) == DefaultFontSize
defaultFontSizeOf(options) == Coalesce(options.defaultFontSize, DefaultFontSize)

\* defaultFontColor = "#000000"; a colour string is the sequence of its
\* characters
DefaultFontColor == <<"#", "0", "0", "0", "0", "0", "0">>

\* const { defaultFontColor = "#000000" } = options
defaultFontColorOf(options) == Coalesce(options.defaultFontColor, DefaultFontColor)

\* hex.replace("#", ""): the string without its first "#"
replaceHash(chars) ==
    IF \E i \in DOMAIN chars : chars[i] = "#"
    THEN LET p == CHOOSE i \in DOMAIN chars :
                    chars[i] = "#" /\ \A j \in 1..(i - 1) : chars[j] # "#"
         IN SubSeq(chars, 1, p - 1) \o SubSeq(chars, p + 1, Len(chars))
    ELSE chars

\* h.substring(from, to), positions counted from 0
substring(chars, from, to) ==
    LET a == IF from > Len(chars) THEN Len(chars) ELSE from
        b == IF to > Len(chars) THEN Len(chars) ELSE to
    IN SubSeq(chars, a + 1, b)

HexDigits ==
    <<"0", "1", "2", "3", "4", "5", "6", "7", "8", "9", "a", "b", "c", "d", "e", "f">>
HexUpper == <<"A", "B", "C", "D", "E", "F">>
IsHex(c) == c \in Range(HexDigits) \cup Range(HexUpper)
HexValue(c) ==
    IF c \in Range(HexDigits)
    THEN (CHOOSE i \in DOMAIN HexDigits : HexDigits[i] = c) - 1
    ELSE (CHOOSE i \in DOMAIN HexUpper : HexUpper[i] = c) + 9

\* NaN, among the numerators of colour components
NaN == 0 - 1

\* parseInt(chars, 16) for at most two characters: the longest prefix of hex
\* digits, NaN when it is empty
parseInt16(chars) ==
    IF Len(chars) = 0 \/ ~IsHex(chars[1]) THEN NaN
    ELSE IF Len(chars) = 1 \/ ~IsHex(chars[2]) THEN HexValue(chars[1])
    ELSE 16 * HexValue(chars[1]) + HexValue(chars[2])

\* parseColor: the components as numerators over 255
parseColor(hex) ==
    LET h == replaceHash(hex) IN
    [r |-> parseInt16(substring(h, 0, 2)),
     g |-> parseInt16(substring(h, 2, 4)),
     b |-> parseInt16(substring(h, 4, 6))]

\* pageIndex < 0 || pageIndex >= pages.length
PageOutOfRangeOffByOne(pageIndex, n) == pageIndex < 0 \/ pageIndex > n
PageOutOfRange(pageIndex, n) == pageIndex < 0 \/ pageIndex >= n

\* pages[pageIndex]: <<>> stands for undefined
PageAt(pages, pageIndex) ==
    IF pageIndex + 1 \in DOMAIN pages THEN <<pages[pageIndex + 1]>> ELSE <<>>

\* const pdfY = pageHeight - mapping.y - fontSize
pdfYNoFont(pageHeight, y, fontSize) == pageHeight - y
pdfY(pageHeight, y, fontSize) == pageHeight - y - fontSize

\* One iteration of the loop over mappings; acc is [draws, threw].
fillPdfIter(pages, mapping, idx, data, options, acc) ==
    LET value == GetProp(data, mapping.fieldName) IN
    IF IsNullish(value) THEN acc
    ELSE
      LET text == String(value)
          pageIndex == mapping.page - 1
      IN
      IF PageOutOfRange(pageIndex, Len(pages)) THEN acc
      ELSE
        LET page == PageAt(pages, pageIndex) IN
        IF page = <<>>
        THEN [acc EXCEPT !.threw = TRUE]   \* page.getSize() on undefined
        ELSE
          LET pageHeight == page[1]
              fontSize == Coalesce(mapping.fontSize, defaultFontSizeOf(options))
              color == parseColor(Coalesce(mapping.fontColor, defaultFontColorOf(options)))
          IN [acc EXCEPT !.draws = Append(@,
                 [idx |-> idx, page |-> pageIndex + 1, text |-> text,
                  x |-> mapping.x,
                  y |-> pdfY(pageHeight, mapping.y, fontSize),
                  size |-> fontSize, color |-> color])]

RECURSIVE fillPdfLoop(_, _, _, _, _, _)
fillPdfLoop(pages, mappings, data, options, i, acc) ==
    IF acc.threw \/ i > Len(mappings) THEN acc
    ELSE fillPdfLoop(pages, mappings, data, options, i + 1,
                     fillPdfIter(pages, mappings[i], i, data, options, acc))

fillPdf(pages, mappings, data, options) ==
    fillPdfLoop(pages, mappings, data, options, 1, [draws |-> <<>>, threw |-> FALSE])

----------------------------------------------------------------------------
(* Inputs of the fillPdf specification *)

MaxMappings == 2

FpFieldNames == {"name", "constructor"}
FpPageNumbers == 0..3
FpFontSizes == {<<>>, <<8>>}
FpMappingSet ==
    [fieldName : FpFieldNames, page : FpPageNumbers, x : {50}, y : {100},
     fontSize : FpFontSizes, fontColor : {<<>>}]

FpNameValues ==
    {StrV("Al"), StrV(""), NumV(0), BoolV(FALSE), NullV, UndefinedV}

FpDataSet ==
    {<<>>} \cup {[k \in {"name"} |-> v] : v \in FpNameValues}

FpOptionsSet == [defaultFontSize : {<<>>, <<10>>}, defaultFontColor : {<<>>}]

FillInit ==
    /\ DetectIdle /\ FormIdle /\ FfaIdle /\ AppIdle /\ PmIdle /\ LoadIdle /\ DownloadIdle /\ RepeatIdle /\ FormDataIdle
    /\ fpPages = <<792, 500>>
    /\ fpMappings \in SeqsUpTo(FpMappingSet, MaxMappings)
    /\ fpData \in FpDataSet
    /\ fpOptions \in FpOptionsSet
    /\ fpPc = "ready"
    /\ fpDraws = <<>>

CallFillPdf ==
    /\ fpPc = "ready"
    /\ LET r == fillPdf(fpPages, fpMappings, fpData, fpOptions) IN
         /\ fpDraws' = r.draws
         /\ fpPc' = IF r.threw THEN "threw" ELSE "saved"
    /\ UNCHANGED <<fpPages, fpMappings, fpData, fpOptions>>
    /\ UNCHANGED <<detectVars, formVars, ffaVars, appVars, mapperVars, loadVars, downloadVars, repeatVars, formDataVars>>

FillNext == CallFillPdf

SpecFill == FillInit /\ [][FillNext]_vars

----------------------------------------------------------------------------
(* Properties of fillPdf *)

FpDrawnIdx == {fpDraws[k].idx : k \in DOMAIN fpDraws}

FpPageOutside(i) ==
    fpMappings[i].page < 1 \/ fpMappings[i].page > Len(fpPages)

\* The data map has an own, non-null value for mapping i and its page exists.
FpOwnValueInRange(i) ==
    /\ fpMappings[i].fieldName \in DOMAIN fpData
    /\ ~IsNullish(fpData[fpMappings[i].fieldName])
    /\ fpMappings[i].page \in 1..Len(fpPages)

\* C1: a mapping whose 1-based page is outside 1..pageCount causes no
\* drawText call and no exception, and the mappings after it are still
\* processed (those with a value and an existing page are drawn).
C1_OutOfRangePageSkipped ==
    fpPc # "ready" =>
      \A i \in DOMAIN fpMappings :
        FpPageOutside(i) =>
          /\ i \notin FpDrawnIdx
          /\ fpPc = "saved"
          /\ \A j \in DOMAIN fpMappings :
               (j > i /\ FpOwnValueInRange(j)) => j \in FpDrawnIdx

C1_Witness ==
    /\ fpPc = "saved"
    /\ \E i, j \in DOMAIN fpMappings :
         /\ i < j
         /\ fpMappings[i].page > Len(fpPages)
         /\ FpOwnValueInRange(j)
         /\ j \in FpDrawnIdx
         /\ i \notin FpDrawnIdx

\* C2: a mapping whose fieldName is not a key of the data map, or whose
\* value there is undefined or null, has no text drawn for it.
C2_AbsentKeyNotDrawn ==
    fpPc # "ready" =>
      \A i \in DOMAIN fpMappings :
        (\/ fpMappings[i].fieldName \notin DOMAIN fpData
         \/ IsNullish(fpData[fpMappings[i].fieldName]))
          => i \notin FpDrawnIdx

\* C3: every drawText call gets y = pageHeight - mapping.y - fontSize, with
\* the page height of the mapping's page and the font size used for the
\* call, and x = mapping.x.
C3_VerticalFlip ==
    \A k \in DOMAIN fpDraws :
      LET d == fpDraws[k]
          m == fpMappings[d.idx]
      IN /\ m.page \in DOMAIN fpPages
         /\ d.y = fpPages[m.page] - m.y - d.size
         /\ d.x = m.x

C3_Witness ==
    /\ fpPc = "saved"
    /\ \E k, l \in DOMAIN fpDraws :
         /\ fpDraws[k].page # fpDraws[l].page
         /\ fpDraws[k].size # fpDraws[l].size

\* The value the loop reads for mapping i: data[mapping.fieldName]
FpValue(i) == GetProp(fpData, fpMappings[i].fieldName)

\* The mappings with a value other than undefined and null and with a page
\* in 1..pageCount
FpToDraw ==
    {i \in DOMAIN fpMappings :
       /\ FpValue(i).t \notin {"undefined", "null"}
       /\ fpMappings[i].page \in 1..Len(fpPages)}

----------------------------------------------------------------------------
(* fillPdf called with font sizes and colours set and unset *)

Red == <<"#", "f", "f", "0", "0", "0", "0">>
Teal == <<"0", "0", "8", "0", "8", "0">>
Blue == <<"#", "0", "0", "0", "0", "F", "F">>

FtMappingSet ==
    [fieldName : {"name"}, page : {1, 2}, x : {50}, y : {100},
     fontSize : {<<>>, <<8>>, <<0>>}, fontColor : {<<>>, <<Red>>, <<Teal>>}]
FtOptionsSet == [defaultFontSize : {<<>>, <<10>>}, defaultFontColor : {<<>>, <<Blue>>}]

FontInit ==
    /\ DetectIdle /\ FormIdle /\ FfaIdle /\ AppIdle /\ PmIdle /\ LoadIdle /\ DownloadIdle /\ RepeatIdle /\ FormDataIdle
    /\ fpPages = <<792, 500>>
    /\ fpMappings \in SeqsUpTo(FtMappingSet, MaxMappings)
    /\ fpData = [k \in {"name"} |-> StrV("Al")]
    /\ fpOptions \in FtOptionsSet
    /\ fpPc = "ready"
    /\ fpDraws = <<>>

SpecFont == FontInit /\ [][FillNext]_vars

\* The components of the colours used, as numerators over 255
FtRgb(colour) ==
    CASE colour = Red -> [r |-> 255, g |-> 0, b |-> 0]
      [] colour = Teal -> [r |-> 0, g |-> 128, b |-> 128]
      [] colour = Blue -> [r |-> 0, g |-> 0, b |-> 255]
      [] colour = <<"#", "0", "0", "0", "0", "0", "0">> -> [r |-> 0, g |-> 0, b |-> 0]

\* C20: a mapping is drawn in its own fontSize when it has one, else in
\* options.defaultFontSize when that is given, else in 12; and in its own
\* fontColor when it has one, else in options.defaultFontColor when that is
\* given, else in "#000000".
C20_FontDefaults ==
    fpPc = "saved" =>
      /\ Len(fpDraws) = Len(fpMappings)
      /\ \A k \in DOMAIN fpDraws :
           LET m == fpMappings[fpDraws[k].idx] IN
           /\ fpDraws[k].size =
                (IF m.fontSize # <<>> THEN m.fontSize[1]
                 ELSE IF fpOptions.defaultFontSize # <<>> THEN fpOptions.defaultFontSize[1]
                 ELSE 12)
           /\ fpDraws[k].color =
                FtRgb(IF m.fontColor # <<>> THEN m.fontColor[1]
                      ELSE IF fpOptions.defaultFontColor # <<>>
                           THEN fpOptions.defaultFontColor[1]
                      ELSE <<"#", "0", "0", "0", "0", "0", "0">>)

C20_Witness ==
    /\ fpPc = "saved"
    /\ fpOptions = [defaultFontSize |-> <<10>>, defaultFontColor |-> <<>>]
    /\ Len(fpDraws) = 2
    /\ fpMappings[1].fontSize = <<0>> /\ fpDraws[1].size = 0
    /\ fpMappings[1].fontColor = <<Teal>> /\ fpDraws[1].color = [r |-> 0, g |-> 128, b |-> 128]
    /\ fpMappings[2].fontSize = <<>> /\ fpDraws[2].size = 10
    /\ fpMappings[2].fontColor = <<>> /\ fpDraws[2].color = [r |-> 0, g |-> 0, b |-> 0]

----------------------------------------------------------------------------
(* getFormFields *)

Info(name, type, options) == [name |-> name, type |-> type, options |-> options]

\* The callback of fields.map: options is <<>> (absent) or <<list>>.
describeFieldNoRadio(field) ==
    CASE field.kind = "text" -> Info(field.name, "text", <<>>)
      [] field.kind = "checkbox" -> Info(field.name, "checkbox", <<>>)
      [] field.kind = "dropdown" -> Info(field.name, "dropdown", <<field.options>>)
      [] OTHER -> Info(field.name, "other", <<>>)

describeField(field) ==
    CASE field.kind = "text" -> Info(field.name, "text", <<>>)
      [] field.kind = "checkbox" -> Info(field.name, "checkbox", <<>>)
      [] field.kind = "dropdown" -> Info(field.name, "dropdown", <<field.options>>)
      [] field.kind = "radio" -> Info(field.name, "radio", <<field.options>>)
      [] OTHER -> Info(field.name, "other", <<>>)

getFormFieldsNoCatch(doc) ==
    LET form == getForm(doc) IN
    IF form.threw THEN [threw |-> TRUE, fields |-> <<>>]
    ELSE [threw |-> FALSE,
          fields |-> [i \in DOMAIN form.fields |-> describeField(form.fields[i])]]

getFormFields(doc) ==
    LET form == getForm(doc) IN
    IF form.threw THEN [threw |-> FALSE, fields |-> <<>>]      \* catch { return [] }
    ELSE [threw |-> FALSE,
          fields |-> [i \in DOMAIN form.fields |-> describeField(form.fields[i])]]

MaxFields == 2

GfFieldSet ==
    {TextField(n, <<>>, <<>>) : n \in {"a", "b"}}
      \cup {CheckBox(n, FALSE) : n \in {"a", "b"}}
      \cup {Dropdown(n, <<"S", "M">>, <<>>) : n \in {"a", "b"}}
      \cup {RadioGroup(n, <<"yes", "no">>, <<>>) : n \in {"a", "b"}}
      \cup {OtherField(n) : n \in {"a", "b"}}
      \cup {Field(n, "listbox", <<>>, FALSE, <<>>, <<"S", "M">>, <<>>) : n \in {"a", "b"}}

GfDocSet ==
    {Doc("ok", fs, FALSE) : fs \in SeqsUpTo(GfFieldSet, MaxFields)}
      \cup {Doc("none", <<>>, FALSE), Doc("broken", <<>>, FALSE)}

DetectInit ==
    /\ FillIdle /\ FormIdle /\ FfaIdle /\ AppIdle /\ PmIdle /\ LoadIdle /\ DownloadIdle /\ RepeatIdle /\ FormDataIdle
    /\ gfDoc \in GfDocSet
    /\ gfPc = "ready"
    /\ gfResult = <<>>

CallGetFormFields ==
    /\ gfPc = "ready"
    /\ LET r == getFormFields(gfDoc) IN
         /\ gfResult' = r.fields
         /\ gfPc' = IF r.threw THEN "threw" ELSE "returned"
    /\ UNCHANGED gfDoc
    /\ UNCHANGED <<fillVars, formVars, ffaVars, appVars, mapperVars, loadVars, downloadVars, repeatVars, formDataVars>>

DetectNext == CallGetFormFields

SpecDetect == DetectInit /\ [][DetectNext]_vars

\* C4: for a document that loads and has zero AcroForm fields (a form with
\* no fields, no AcroForm at all, or an AcroForm getForm cannot use) the
\* result is the empty list and no error is raised.
C4_NoFieldsEmptyList ==
    (gfPc # "ready" /\ Len(gfDoc.fields) = 0) =>
        (gfPc = "returned" /\ gfResult = <<>>)

C4_Witness ==
    /\ gfPc = "returned"
    /\ gfDoc.acroForm = "none"
    /\ gfResult = <<>>

\* C16: for a document whose form can be read the result has one descriptor
\* per field, in the form's order and with the field's name; the type is the
\* field's kind for text, checkbox, dropdown and radio fields and "other"
\* for any other kind; options is present, and is the field's option list,
\* exactly for dropdown and radio descriptors.
C16_OneDescriptorPerField ==
    (gfPc # "ready" /\ gfDoc.acroForm = "ok") =>
      /\ gfPc = "returned"
      /\ Len(gfResult) = Len(gfDoc.fields)
      /\ \A i \in DOMAIN gfDoc.fields :
           LET f == gfDoc.fields[i]
               r == gfResult[i]
           IN /\ r.name = f.name
              /\ r.type = (IF f.kind \in {"text", "checkbox", "dropdown", "radio"}
                           THEN f.kind ELSE "other")
              /\ r.options = (IF r.type \in {"dropdown", "radio"}
                              THEN <<f.options>> ELSE <<>>)

C16_Witness ==
    /\ gfPc = "returned"
    /\ Len(gfResult) = 2
    /\ gfDoc.fields[1].kind = "radio" /\ gfResult[1].options = <<<<"yes", "no">>>>
    /\ gfDoc.fields[2].kind = "listbox" /\ gfResult[2] = Info("a", "other", <<>>)

----------------------------------------------------------------------------
(* fillFormPdf *)

\* flatten = true (default parameter value)
flattenOfDefaultFalse(arg) == IF arg = <<>> THEN FALSE ELSE arg[1]
flattenOf(arg) == IF arg = <<>> THEN TRUE ELSE arg[1]

\* fieldMap ? fieldMap[dataKey] : dataKey     (<<>> is undefined)
\* A rename map is a plain object, so a key that it does not own can find a
\* function inherited from Object.prototype: that value is truthy and
\* form.getField, which takes strings only, throws on it; it is written
\* here as the function's text, which is no field's name.
pdfFieldNameIgnoringMap(fieldMap, dataKey) == <<dataKey>>
pdfFieldNameOf(fieldMap, dataKey) ==
    IF fieldMap # <<>>
    THEN (IF dataKey \in DOMAIN fieldMap[1] THEN <<fieldMap[1][dataKey]>>
          ELSE IF dataKey \in ProtoKeys THEN <<String(FunctionV)>>
          ELSE <<>>)
    ELSE <<dataKey>>

\* !pdfFieldName
IsFalsyName(name) == name = <<>> \/ name[1] = ""

\* text === "true" || text === "1" || text === "yes"
IsTruthyNoYes(text) == text = "true" \/ text = "1"
IsTruthy(text) == text = "true" \/ text = "1" \/ text = "yes"

Threw(field) == [threw |-> TRUE, field |-> field]
Done(field) == [threw |-> FALSE, field |-> field]

\* PDFTextField.setText: rejects a text longer than the field's maxLength;
\* an empty text removes the field's value.
setText(field, text) ==
    IF field.maxLen # <<>> /\ Len(text) > field.maxLen[1]
    THEN Threw(field)
    ELSE Done([field EXCEPT !.text = IF text = "" THEN <<>> ELSE <<text>>])

\* PDFCheckBox.check / uncheck
check(field) == Done([field EXCEPT !.checked = TRUE])
uncheck(field) == Done([field EXCEPT !.checked = FALSE])

\* PDFDropdown.select: a value outside the options is kept as a custom value
selectDropdown(field, text) == Done([field EXCEPT !.selected = <<text>>])

\* PDFRadioGroup.select: rejects a value that is not one of the options
selectRadio(field, text) ==
    IF text \in Range(field.options)
    THEN Done([field EXCEPT !.selected = <<text>>])
    ELSE Threw(field)

\* The if / else-if chain on the field's class; op names the setter called.
setValueNoText(field, text) ==
    CASE field.kind = "checkbox" ->
           IF IsTruthy(text)
           THEN [op |-> "check", r |-> check(field)]
           ELSE [op |-> "uncheck", r |-> uncheck(field)]
      [] field.kind = "dropdown" -> [op |-> "select", r |-> selectDropdown(field, text)]
      [] field.kind = "radio" -> [op |-> "select", r |-> selectRadio(field, text)]
      [] OTHER -> [op |-> "none", r |-> Done(field)]

setValue(field, text) ==
    CASE field.kind = "text" -> [op |-> "setText", r |-> setText(field, text)]
      [] field.kind = "checkbox" ->
           IF IsTruthy(text)
           THEN [op |-> "check", r |-> check(field)]
           ELSE [op |-> "uncheck", r |-> uncheck(field)]
      [] field.kind = "dropdown" -> [op |-> "select", r |-> selectDropdown(field, text)]
      [] field.kind = "radio" -> [op |-> "select", r |-> selectRadio(field, text)]
      [] OTHER -> [op |-> "none", r |-> Done(field)]

Call(op, target, caught) == [op |-> op, target |-> target, caught |-> caught]

\* One iteration of the loop over Object.entries(data), up to the catch:
\* the fields after it, what it did and whether it threw.
fillFormTry(fields, entry, fieldMap) ==
    LET pdfFieldName == pdfFieldNameOf(fieldMap, entry.key) IN
    IF IsNullish(entry.value)
    THEN [fields |-> fields, call |-> Call("skip", "", FALSE), threw |-> FALSE]
    ELSE IF IsFalsyName(pdfFieldName)
    THEN [fields |-> fields, call |-> Call("skip", "", FALSE), threw |-> FALSE]
    ELSE
      LET idx == getField(fields, pdfFieldName[1])
          text == String(entry.value)
      IN
      IF idx = 0
      THEN [fields |-> fields, call |-> Call("getField", pdfFieldName[1], TRUE),
            threw |-> TRUE]
      ELSE
        LET s == setValue(fields[idx], text) IN
        IF s.r.threw
        THEN [fields |-> fields, call |-> Call(s.op, pdfFieldName[1], TRUE),
              threw |-> TRUE]
        ELSE [fields |-> [fields EXCEPT ![idx] = s.r.field],
              call |-> Call(s.op, pdfFieldName[1], FALSE), threw |-> FALSE]

fillFormIterNoCatch(fields, entry, fieldMap) ==
    fillFormTry(fields, entry, fieldMap)

\* try { ... } catch { /* skip silently */ }
fillFormIter(fields, entry, fieldMap) ==
    [fillFormTry(fields, entry, fieldMap) EXCEPT !.threw = FALSE]

MaxEntries == 2

FfDoc1 ==
    Doc("ok", <<TextField("name", <<"old">>, <<>>), CheckBox("agree", TRUE),
                RadioGroup("color", <<"yes", "no">>, <<"no">>), OtherField("extra")>>,
        FALSE)
FfDoc2Fields ==
    <<CheckBox("agree", FALSE), TextField("name", <<>>, <<3>>),
      Dropdown("color", <<"yes", "no">>, <<>>)>>
FfDoc2 == Doc("ok", FfDoc2Fields, FALSE)
FfDoc2F == Doc("ok", FfDoc2Fields, TRUE)
FfDocSet == {FfDoc1, FfDoc2, FfDoc2F, Doc("broken", <<>>, FALSE)}

FfKeys == {"name", "agree", "color", "extra", "constructor"}
FfValues ==
    {StrV("true"), StrV("1"), StrV("yes"), StrV("no"), StrV(""),
     BoolV(TRUE), NumV(1), NullV, UndefinedV}
FfEntrySet == [key : FfKeys, value : FfValues]

\* Object.entries(data): own keys are distinct.
FfDataSet ==
    {d \in SeqsUpTo(FfEntrySet, MaxEntries) :
       \A i, j \in DOMAIN d : i # j => d[i].key # d[j].key}

FfFieldMapSet ==
    {<<>>, <<[k \in {"name", "agree", "color"} |->
               IF k = "color" THEN "" ELSE "agree"]>>}

\* The flatten argument: omitted, true or false.
FfFlattenArgs == {<<>>, <<TRUE>>, <<FALSE>>}

FormInit ==
    /\ FillIdle /\ DetectIdle /\ FfaIdle /\ AppIdle /\ PmIdle /\ LoadIdle /\ DownloadIdle /\ RepeatIdle /\ FormDataIdle
    /\ ffDoc \in FfDocSet
    /\ ffData \in FfDataSet
    /\ ffFieldMap \in FfFieldMapSet
    /\ ffFlattenArg = <<>>
    /\ ffPc = "ready"
    /\ ffI = 1
    /\ ffForm = <<>>
    /\ ffCalls = <<>>
    /\ ffFlattens = 0
    /\ ffOut = [fields |-> <<>>, flattened |-> FALSE]

\* loadPdfBytes, PDFDocument.load, pdfDoc.getForm()
FillFormLoad ==
    /\ ffPc = "ready"
    /\ LET form == getForm(ffDoc) IN
         IF form.threw
         THEN ffPc' = "threw" /\ ffForm' = ffForm
         ELSE ffPc' = "loop" /\ ffForm' = form.fields
    /\ UNCHANGED <<ffDoc, ffData, ffFieldMap, ffFlattenArg, ffI, ffCalls,
                   ffFlattens, ffOut>>
    /\ UNCHANGED <<fillVars, detectVars, ffaVars, appVars, mapperVars, loadVars, downloadVars, repeatVars, formDataVars>>

\* for (const [dataKey, value] of Object.entries(data)) { ... }
FillFormEntry ==
    /\ ffPc = "loop"
    /\ ffI <= Len(ffData)
    /\ LET r == fillFormIter(ffForm, ffData[ffI], ffFieldMap) IN
         /\ ffForm' = r.fields
         /\ ffCalls' = Append(ffCalls, r.call)
         /\ ffPc' = IF r.threw THEN "threw" ELSE "loop"
         /\ ffI' = IF r.threw THEN ffI ELSE ffI + 1
    /\ UNCHANGED <<ffDoc, ffData, ffFieldMap, ffFlattenArg, ffFlattens, ffOut>>
    /\ UNCHANGED <<fillVars, detectVars, ffaVars, appVars, mapperVars, loadVars, downloadVars, repeatVars, formDataVars>>

\* if (flatten) form.flatten();  return pdfDoc.save()
\* The flatten argument is first read here; it is drawn here.
FillFormFinish ==
    /\ ffPc = "loop"
    /\ ffI > Len(ffData)
    /\ ffFlattenArg' \in FfFlattenArgs
    /\ IF flattenOf(ffFlattenArg')
       THEN /\ ffFlattens' = ffFlattens + 1
            /\ IF ffDoc.flattenThrows
               THEN ffPc' = "threw" /\ ffOut' = ffOut
               ELSE ffPc' = "saved" /\ ffOut' = [fields |-> <<>>, flattened |-> TRUE]
       ELSE /\ ffFlattens' = ffFlattens
            /\ ffPc' = "saved"
            /\ ffOut' = [fields |-> ffForm, flattened |-> FALSE]
    /\ UNCHANGED <<ffDoc, ffData, ffFieldMap, ffI, ffForm, ffCalls>>
    /\ UNCHANGED <<fillVars, detectVars, ffaVars, appVars, mapperVars, loadVars, downloadVars, repeatVars, formDataVars>>

FormNext == FillFormLoad \/ FillFormEntry \/ FillFormFinish

SpecForm == FormInit /\ [][FormNext]_vars

----------------------------------------------------------------------------
(* Properties of fillFormPdf *)

\* The loop over the data entries has run to its end.
FfLoopDone == ffPc \in {"loop", "saved", "threw"} /\ ffI > Len(ffData)

\* The form field name entry i is applied to: <<>> when there is none.
FfTarget(i) == pdfFieldNameOf(ffFieldMap, ffData[i].key)

\* The entries with a value that target the field named n.
FfTargeting(n) ==
    {i \in DOMAIN ffData : ~IsNullish(ffData[i].value) /\ FfTarget(i) = <<n>>}

FfMax(S) == CHOOSE i \in S : \A j \in S : j <= i

FfNow(n) == ffForm[getField(ffForm, n)]

FfCheckboxes == {f \in Range(ffDoc.fields) : f.kind = "checkbox"}

\* C5 as stated: a checkbox targeted by a data key ends checked when the
\* value is "true", "1" or "yes" and unchecked for any other value (other
\* strings, numbers, booleans, null, undefined), whatever its source state.
C5_CheckboxOnlyThreeStrings ==
    FfLoopDone =>
      \A f \in FfCheckboxes : \A i \in DOMAIN ffData :
        (ffFieldMap = <<>> /\ ffData[i].key = f.name) =>
          (FfNow(f.name).checked
             <=> ffData[i].value \in {StrV("true"), StrV("1"), StrV("yes")})

\* C5 amended: after the loop a checkbox is checked exactly when String(value)
\* of the last entry with a non-null, non-undefined value that targets it is
\* "true", "1" or "yes"; with no such entry it is as in the source document.
C5_CheckboxByStringOfValue ==
    FfLoopDone =>
      \A f \in FfCheckboxes :
        IF FfTargeting(f.name) = {}
        THEN FfNow(f.name).checked = f.checked
        ELSE FfNow(f.name).checked
               <=> String(ffData[FfMax(FfTargeting(f.name))].value)
                     \in {"true", "1", "yes"}

C5_Witness ==
    /\ ffPc = "saved"
    /\ ffDoc = FfDoc2
    /\ ffFieldMap = <<>>
    /\ \E i \in DOMAIN ffData :
         ffData[i].key = "agree" /\ ffData[i].value = StrV("yes")
    /\ FfNow("agree").checked

\* fieldName is the name of a text field of the source document.
FfIsTextField(n) == \E f \in Range(ffDoc.fields) : f.name = n /\ f.kind = "text"

\* form.getTextField(n).getText() on the saved document: ok is FALSE when
\* the document has no text field of that name.
FfReadText(fields, n) ==
    LET idx == getField(fields, n) IN
    IF idx = 0 \/ fields[idx].kind # "text"
    THEN [ok |-> FALSE, text |-> <<>>]
    ELSE [ok |-> TRUE, text |-> fields[idx].text]

\* C6 as stated: after fillFormPdf(source, {n: v}) for a text field n and a
\* string v, re-reading text field n from the produced document yields v.
C6_RoundTripDefaultArgs ==
    (/\ ffPc = "saved" /\ ffFieldMap = <<>> /\ ffFlattenArg = <<>>
     /\ Len(ffData) = 1
     /\ ffData[1].value.t = "string"
     /\ FfIsTextField(ffData[1].key))
      => FfReadText(ffOut.fields, ffData[1].key)
           = [ok |-> TRUE, text |-> <<ffData[1].value.s>>]

\* The text field named n takes a text of this length.
FfFits(n, text) ==
    \A f \in Range(ffDoc.fields) :
      (f.name = n /\ f.maxLen # <<>>) => Len(text) <= f.maxLen[1]

\* C6 amended: after fillFormPdf(source, {n: v}, undefined, false), for a
\* text field n and a non-empty string v no longer than the field's
\* maxLength, re-reading text field n from the produced document yields v.
C6_RoundTripUnflattened ==
    (/\ ffPc = "saved" /\ ffFieldMap = <<>> /\ ffFlattenArg = <<FALSE>>
     /\ Len(ffData) = 1
     /\ ffData[1].value.t = "string"
     /\ ffData[1].value.s # ""
     /\ FfIsTextField(ffData[1].key)
     /\ FfFits(ffData[1].key, ffData[1].value.s))
      => FfReadText(ffOut.fields, ffData[1].key)
           = [ok |-> TRUE, text |-> <<ffData[1].value.s>>]

C6_Witness ==
    /\ ffPc = "saved" /\ ffFieldMap = <<>> /\ ffFlattenArg = <<FALSE>>
    /\ ffDoc = FfDoc1
    /\ ffData = <<[key |-> "name", value |-> StrV("yes")]>>
    /\ FfReadText(ffOut.fields, "name") = [ok |-> TRUE, text |-> <<"yes">>]

\* Entry i has a value and a target name, and the form has no field of that
\* name, or the field does not take the value: a text over maxLength, a
\* radio value that is no option, a field of a kind that takes no value.
FfUnresolved(i) ==
    /\ ~IsNullish(ffData[i].value)
    /\ ~IsFalsyName(FfTarget(i))
    /\ LET n == FfTarget(i)[1]
           text == String(ffData[i].value)
       IN \/ \A f \in Range(ffForm) : f.name # n
          \/ \E f \in Range(ffForm) :
               /\ f.name = n
               /\ \/ f.kind = "text" /\ f.maxLen # <<>> /\ Len(text) > f.maxLen[1]
                  \/ f.kind = "radio" /\ text \notin Range(f.options)
                  \/ f.kind = "other"

\* C7: an entry whose target field does not exist or rejects the value
\* raises no error, changes no field, and the loop goes on to the next entry.
C7_UnresolvedSkipped ==
    [][(ffPc = "loop" /\ ffI <= Len(ffData) /\ FfUnresolved(ffI))
         => (ffPc' = "loop" /\ ffI' = ffI + 1 /\ ffForm' = ffForm)]_vars

C7_Witness ==
    /\ ffPc = "saved"
    /\ Len(ffCalls) = 2
    /\ ffCalls[1].caught
    /\ ffCalls[2].op = "setText" /\ ~ffCalls[2].caught
    /\ ffForm # ffDoc.fields

\* The entry the loop is about to process has no value, or the rename map
\* is given and has no entry, or an empty one, for the entry's key.
FfNoTarget ==
    \/ IsNullish(ffData[ffI].value)
    \/ /\ ffFieldMap # <<>>
       /\ \/ ffData[ffI].key \notin DOMAIN ffFieldMap[1]
          \/ ffFieldMap[1][ffData[ffI].key] = ""

\* The field name the claim gives the entry the loop is about to process.
FfRenamed ==
    IF ffFieldMap = <<>> THEN ffData[ffI].key ELSE ffFieldMap[1][ffData[ffI].key]

\* C11: with a rename map an entry with a value is applied to the field
\* named fieldMap[key] and to no other field, and an entry whose key has no
\* entry, or an empty one, in the map changes no field; without a rename map
\* the entry is applied to the field named by its key.  The loop goes on.
C11_RenameMap ==
    [][(ffPc = "loop" /\ ffI <= Len(ffData)) =>
         /\ ffPc' = "loop" /\ ffI' = ffI + 1
         /\ IF FfNoTarget
            THEN ffForm' = ffForm
            ELSE /\ \A j \in DOMAIN ffForm :
                      ffForm[j].name # FfRenamed => ffForm'[j] = ffForm[j]
                 /\ ffCalls'[Len(ffCalls')].target = FfRenamed
                 /\ \A j \in DOMAIN ffForm :
                      (ffForm[j].name = FfRenamed /\ ffForm[j].kind = "checkbox")
                        => (ffForm'[j].checked
                              <=> String(ffData[ffI].value) \in {"true", "1", "yes"})]_vars

C11_Witness ==
    /\ ffPc = "saved"
    /\ ffDoc = FfDoc2
    /\ ffFieldMap # <<>>
    /\ ffData = <<[key |-> "name", value |-> StrV("yes")],
                  [key |-> "constructor", value |-> StrV("1")]>>
    /\ FfNow("agree").checked
    /\ FfNow("name").text = <<>>
    /\ ffCalls[1] = Call("check", "agree", FALSE)

\* C12: the form is flattened at most once, only once every entry has been
\* processed and only when the flatten argument is true or omitted; a call
\* that saves has flattened exactly once when the argument is true or
\* omitted, with the saved document being the flattened one, and never when
\* the argument is false.
C12_FlattenOnceBeforeSave ==
    [][/\ ffFlattens' # ffFlattens =>
            /\ ffFlattens = 0 /\ ffFlattens' = 1
            /\ ffPc = "loop" /\ ffI > Len(ffData)
            /\ ffFlattenArg' \in {<<>>, <<TRUE>>}
       /\ (ffPc' = "saved" /\ ffPc # "saved") =>
            /\ ffI > Len(ffData)
            /\ Len(ffCalls) = Len(ffData)
            /\ IF ffFlattenArg' \in {<<>>, <<TRUE>>}
               THEN ffFlattens' = 1 /\ ffOut'.flattened
               ELSE ffFlattens' = 0 /\ ~ffOut'.flattened /\ ffOut'.fields = ffForm]_vars

C12_Witness ==
    /\ ffPc = "saved"
    /\ ffFlattenArg = <<>>
    /\ ffFlattens = 1
    /\ ffOut.flattened
    /\ Len(ffCalls) = 2
    /\ ffCalls[2] = Call("setText", "name", FALSE)

FfSetters == {"setText", "check", "uncheck", "select"}

\* The names targeted by an entry whose value is neither undefined nor null.
FfSetTargets ==
    {FfTarget(i)[1] : i \in {j \in DOMAIN ffData :
                                /\ ffData[j].value.t \notin {"undefined", "null"}
                                /\ FfTarget(j) # <<>>}}

\* C26: a setter (setText, check, uncheck, select) is called only for an
\* entry whose value is neither undefined nor null, on the field that entry
\* targets; a field that no such entry targets, and a field that is neither
\* text field, checkbox, dropdown nor radio group, is as in the source
\* document until the flatten step.
C26_Frame ==
    (ffPc \in {"loop", "saved", "threw"} /\ Len(ffForm) = Len(ffDoc.fields)) =>
      /\ \A k \in DOMAIN ffCalls :
            ffCalls[k].op \in FfSetters =>
              /\ ffData[k].value.t \notin {"undefined", "null"}
              /\ FfTarget(k) = <<ffCalls[k].target>>
      /\ \A j \in DOMAIN ffForm :
            (ffDoc.fields[j].kind = "other" \/ ffDoc.fields[j].name \notin FfSetTargets)
              => ffForm[j] = ffDoc.fields[j]

C26_Witness ==
    /\ ffPc = "saved"
    /\ ffDoc = FfDoc1
    /\ ffFieldMap = <<>>
    /\ ffData = <<[key |-> "name", value |-> NullV], [key |-> "agree", value |-> StrV("no")]>>
    /\ ffCalls = <<Call("skip", "", FALSE), Call("uncheck", "agree", FALSE)>>
    /\ ffForm[1] = FfDoc1.fields[1]
    /\ ffForm[2].checked = FALSE
    /\ ffForm[4] = FfDoc1.fields[4]

----------------------------------------------------------------------------
(* FormFillApp: the form-fill example application.  A handler is split at   *)
(* its awaits; what it reads after an await is what its closure captured    *)
(* when the handler was created (the state of the render the click saw).   *)

\* The number of loads, Preview clicks and Download clicks of a run.
MaxClicks == 4

FaDocSet == {FfDoc1, FfDoc2F, NoDoc}

\* How a fillFormPdf call settles: "ok", or the step that throws.  The loop
\* over the entries cannot throw; form.flatten() runs before pdfDoc.save();
\* saveOk tells whether pdfDoc.save() resolves.
fillFormPdfSettles(doc, flattenArg, saveOk) ==
    IF getForm(doc).threw THEN "getForm"
    ELSE IF flattenOf(flattenArg) /\ doc.flattenThrows THEN "flatten"
    ELSE IF saveOk THEN "ok" ELSE "save"

RemoveAt(seq, i) == [k \in 1..(Len(seq) - 1) |-> IF k < i THEN seq[k] ELSE seq[k + 1]]

\* URL.revokeObjectURL(url) when url is not null
Revoke(urls, url) == IF url = 0 THEN urls ELSE [urls EXCEPT ![url] = @ + 1]

FfaInit ==
    /\ FillIdle /\ DetectIdle /\ FormIdle /\ AppIdle /\ PmIdle /\ LoadIdle /\ DownloadIdle /\ RepeatIdle /\ FormDataIdle
    /\ faPdf = <<>>
    /\ faFormFields = <<>>
    /\ faPreviewUrl = 0
    /\ faFlatten = FALSE
    /\ faError = "none"
    /\ faDetecting = <<>>
    /\ faPreviews = <<>>
    /\ faDownloads = <<>>
    /\ faUrls = <<>>
    /\ faSaved = 0
    /\ faFinished = 0
    /\ faLast = NoCall
    /\ faClicks = 0

\* useEffect on pdfSource: a non-null source starts a getFormFields call.
\* (For a null source it sets formFields to [], see FfaLoadDifferent.)
FfaEffect(source) == faDetecting' = Append(faDetecting, source)

\* handleFileUpload: reader.onload
FfaUpload(doc) ==
    /\ faPdf = <<>>
    /\ faClicks < MaxClicks
    /\ faClicks' = faClicks + 1
    /\ faPdf' = <<doc>>
    /\ faPreviewUrl' = 0
    /\ FfaEffect(doc)
    /\ UNCHANGED <<faFormFields, faFlatten, faError, faPreviews, faDownloads,
                   faUrls, faSaved, faFinished, faLast>>
    /\ UNCHANGED <<fillVars, detectVars, formVars, appVars, mapperVars, loadVars, downloadVars, repeatVars, formDataVars>>

\* onDrop: reader.onload
FfaDrop(doc) ==
    /\ faPdf = <<>>
    /\ faClicks < MaxClicks
    /\ faClicks' = faClicks + 1
    /\ faPdf' = <<doc>>
    /\ FfaEffect(doc)
    /\ UNCHANGED <<faFormFields, faPreviewUrl, faFlatten, faError, faPreviews,
                   faDownloads, faUrls, faSaved, faFinished, faLast>>
    /\ UNCHANGED <<fillVars, detectVars, formVars, appVars, mapperVars, loadVars, downloadVars, repeatVars, formDataVars>>

\* fields.forEach(field => { initialData[field.name] = "" })
initialData(fields) == [n \in {fields[k].name : k \in DOMAIN fields} |-> ""]

\* getFormFields(pdfSource).then(fields => setFormFields(fields) ...)
FfaDetected(i) ==
    /\ i \in DOMAIN faDetecting
    /\ LET r == getFormFields(faDetecting[i]) IN
         /\ ~r.threw
         /\ faFormFields' = r.fields
    /\ faDetecting' = RemoveAt(faDetecting, i)
    /\ UNCHANGED <<faPdf, faPreviewUrl, faFlatten, faError, faPreviews,
                   faDownloads, faUrls, faSaved, faFinished, faLast, faClicks>>
    /\ UNCHANGED <<fillVars, detectVars, formVars, appVars, mapperVars, loadVars, downloadVars, repeatVars>>
    /\ faFormData' = initialData(getFormFields(faDetecting[i]).fields)

\* "Load Different PDF" button, then the effect for a null source
FfaLoadDifferent ==
    /\ faPdf # <<>>
    /\ faPdf' = <<>>
    /\ faFormFields' = <<>>
    /\ faUrls' = Revoke(faUrls, faPreviewUrl)
    /\ faPreviewUrl' = 0
    /\ UNCHANGED <<faFlatten, faError, faDetecting, faPreviews, faDownloads,
                   faSaved, faFinished, faLast, faClicks>>
    /\ UNCHANGED <<fillVars, detectVars, formVars, appVars, mapperVars, loadVars, downloadVars, repeatVars>>
    /\ faFormData' = <<>>

\* The Preview and Download buttons and the flatten checkbox are rendered
\* when a PDF is loaded and formFields is not empty.
FfaFormShown == faPdf # <<>> /\ Len(faFormFields) > 0

\* flatten checkbox onChange
FfaToggleFlatten ==
    /\ FfaFormShown
    /\ faFlatten' = ~faFlatten
    /\ UNCHANGED <<faPdf, faFormFields, faPreviewUrl, faError, faDetecting,
                   faPreviews, faDownloads, faUrls, faSaved, faFinished, faLast,
                   faClicks>>
    /\ UNCHANGED <<fillVars, detectVars, formVars, appVars, mapperVars, loadVars, downloadVars, repeatVars, formDataVars>>

\* handlePreview up to its await
FfaPreviewClick ==
    /\ FfaFormShown
    /\ faClicks < MaxClicks
    /\ faClicks' = faClicks + 1
    /\ faError' = "none"
    /\ faPreviews' = Append(faPreviews, [pdf |-> faPdf[1], previewUrl |-> faPreviewUrl])
    /\ UNCHANGED <<faPdf, faFormFields, faPreviewUrl, faFlatten, faDetecting,
                   faDownloads, faUrls, faSaved, faFinished, faLast>>
    /\ UNCHANGED <<fillVars, detectVars, formVars, appVars, mapperVars, loadVars, downloadVars, repeatVars, formDataVars>>

\* handlePreview after its await
FfaPreviewSettle(i, saveOk) ==
    /\ i \in DOMAIN faPreviews
    /\ LET c == faPreviews[i] IN
         IF fillFormPdfSettles(c.pdf, <<FALSE>>, saveOk) = "ok"
         THEN /\ faUrls' = Append(Revoke(faUrls, c.previewUrl), 0)
              /\ faPreviewUrl' = Len(faUrls) + 1
              /\ faError' = faError
         ELSE /\ faError' = "preview"
              /\ UNCHANGED <<faUrls, faPreviewUrl>>
    /\ faPreviews' = RemoveAt(faPreviews, i)
    /\ UNCHANGED <<faPdf, faFormFields, faFlatten, faDetecting, faDownloads,
                   faSaved, faFinished, faLast, faClicks>>
    /\ UNCHANGED <<fillVars, detectVars, formVars, appVars, mapperVars, loadVars, downloadVars, repeatVars, formDataVars>>

\* handleDownload up to its first await
FfaDownloadClick ==
    /\ FfaFormShown
    /\ faClicks < MaxClicks
    /\ faClicks' = faClicks + 1
    /\ faError' = "none"
    /\ faDownloads' = Append(faDownloads,
          [pdf |-> faPdf[1], flatten |-> faFlatten, error |-> faError,
           calls |-> 1, first |-> "none"])
    /\ UNCHANGED <<faPdf, faFormFields, faPreviewUrl, faFlatten, faDetecting,
                   faPreviews, faUrls, faSaved, faFinished, faLast>>
    /\ UNCHANGED <<fillVars, detectVars, formVars, appVars, mapperVars, loadVars, downloadVars, repeatVars, formDataVars>>

\* catch (flattenError) { if (flattenOnDownload) ... else throw flattenError }
retriesAlways(c) == TRUE
retries(c) == c.flatten

\* The end of handleDownload: the file is saved, or the outer catch runs.
FfaDownloadEnd(i, c, outcome) ==
    /\ faDownloads' = RemoveAt(faDownloads, i)
    /\ faFinished' = faFinished + 1
    /\ IF outcome = "ok"
       THEN /\ faSaved' = faSaved + 1
            /\ faError' = IF c.error = "none" THEN "none" ELSE faError
            /\ faLast' = [flatten |-> c.flatten, calls |-> c.calls,
                          outcome |-> "downloaded", first |-> c.first]
       ELSE /\ faSaved' = faSaved
            /\ faError' = "failed"
            /\ faLast' = [flatten |-> c.flatten, calls |-> c.calls,
                          outcome |-> "failed",
                          first |-> IF c.calls = 1 THEN outcome ELSE c.first]

\* handleDownload after an await of fillFormPdf
FfaDownloadSettle(i, saveOk) ==
    /\ i \in DOMAIN faDownloads
    /\ LET c == faDownloads[i]
           outcome == fillFormPdfSettles(
                        c.pdf, IF c.calls = 1 THEN <<c.flatten>> ELSE <<FALSE>>, saveOk)
       IN
       IF c.calls = 1 /\ outcome # "ok" /\ retries(c)
       THEN /\ faError' = "note"
            /\ faDownloads' = [faDownloads EXCEPT ![i] =
                                 [c EXCEPT !.calls = 2, !.first = outcome]]
            /\ UNCHANGED <<faSaved, faFinished, faLast>>
       ELSE FfaDownloadEnd(i, c, outcome)
    /\ UNCHANGED <<faPdf, faFormFields, faPreviewUrl, faFlatten, faDetecting,
                   faPreviews, faUrls, faClicks>>
    /\ UNCHANGED <<fillVars, detectVars, formVars, appVars, mapperVars, loadVars, downloadVars, repeatVars, formDataVars>>

FfaNext ==
    \/ \E doc \in FaDocSet : FfaUpload(doc)
    \/ \E doc \in FaDocSet : FfaDrop(doc)
    \/ \E i \in 1..MaxClicks : FfaDetected(i)
    \/ FfaLoadDifferent
    \/ FfaToggleFlatten
    \/ FfaPreviewClick
    \/ \E i \in 1..MaxClicks, saveOk \in BOOLEAN : FfaPreviewSettle(i, saveOk)
    \/ FfaDownloadClick
    \/ \E i \in 1..MaxClicks, saveOk \in BOOLEAN : FfaDownloadSettle(i, saveOk)

SpecFFA == FfaInit /\ [][FfaNext]_vars

\* C10: one handleDownload call makes at most two fillFormPdf calls; a
\* failure with flattening disabled is not retried and a failure of the retry
\* is not retried again: both end with the "Failed to fill PDF" error and no
\* file downloaded.
C10_SingleFallback ==
    [][/\ \A k \in DOMAIN faDownloads' :
            faDownloads'[k].calls <= 2 /\ (faDownloads'[k].calls = 2 => faDownloads'[k].flatten)
       /\ faFinished' = faFinished + 1 =>
            /\ faLast'.calls <= 2
            /\ (faLast'.first # "none" /\ ~faLast'.flatten) => faLast'.calls = 1
            /\ (faLast'.calls = 1 /\ faLast'.first # "none") => faLast'.outcome = "failed"
            /\ faLast'.outcome = "failed" =>
                 (faError' = "failed" /\ faSaved' = faSaved)]_vars

C10_Witness ==
    /\ faLast.outcome = "failed"
    /\ faLast.calls = 2
    /\ faLast.first = "flatten"
    /\ faError = "failed"
    /\ faSaved = 0

\* C24: when a handleDownload call whose first fillFormPdf failed with
\* flattening on ends with the retry's file downloaded, the error shown is
\* the "Downloaded PDF without flattening" note.
C24_FallbackNoteShown ==
    [][(/\ faFinished' = faFinished + 1
        /\ faLast'.outcome = "downloaded"
        /\ faLast'.calls = 2) => faError' = "note"]_vars

----------------------------------------------------------------------------
(* App: the main example application (its AcroForm side). *)

ApDocSet == {FfDoc1, FfDoc2F, NoDoc}

AppInit ==
    /\ FillIdle /\ DetectIdle /\ FormIdle /\ FfaIdle /\ PmIdle /\ LoadIdle /\ DownloadIdle /\ RepeatIdle /\ FormDataIdle
    /\ apPdf = <<>>
    /\ apFormFields = <<>>
    /\ apActiveTab = "mapper"
    /\ apFormPreviewUrl = 0
    /\ apDetecting = <<>>
    /\ apFormPreviews = <<>>
    /\ apFormDownloads = <<>>
    /\ apUrls = <<>>
    /\ apSaved = 0
    /\ apLast = NoCall
    /\ apClicks = 0

\* loadPdf (from handleFileUpload, onDrop or handleLoadSample), then the
\* effect on pdfSource, which starts a getFormFields call.
AppLoadPdf(doc) ==
    /\ apPdf = <<>>
    /\ apClicks < MaxClicks
    /\ apClicks' = apClicks + 1
    /\ apPdf' = <<doc>>
    /\ apFormPreviewUrl' = 0
    /\ apDetecting' = Append(apDetecting, doc)
    /\ UNCHANGED <<apFormFields, apActiveTab, apFormPreviews, apFormDownloads,
                   apUrls, apSaved, apLast>>
    /\ UNCHANGED <<fillVars, detectVars, formVars, ffaVars, mapperVars, loadVars, downloadVars, repeatVars, formDataVars>>

\* getFormFields(pdfSource).then(fields => ...)
AppDetected(i) ==
    /\ i \in DOMAIN apDetecting
    /\ LET r == getFormFields(apDetecting[i]) IN
         /\ ~r.threw
         /\ apFormFields' = r.fields
         /\ apActiveTab' = IF Len(r.fields) > 0 THEN "form" ELSE apActiveTab
    /\ apDetecting' = RemoveAt(apDetecting, i)
    /\ UNCHANGED <<apPdf, apFormPreviewUrl, apFormPreviews, apFormDownloads,
                   apUrls, apSaved, apLast, apClicks>>
    /\ UNCHANGED <<fillVars, detectVars, formVars, ffaVars, mapperVars, loadVars, downloadVars, repeatVars, formDataVars>>

\* "Change PDF" button, then the effect for a null source
AppChangePdf ==
    /\ apPdf # <<>>
    /\ apPdf' = <<>>
    /\ apFormFields' = <<>>
    /\ apFormPreviewUrl' = 0
    /\ UNCHANGED <<apActiveTab, apDetecting, apFormPreviews, apFormDownloads,
                   apUrls, apSaved, apLast, apClicks>>
    /\ UNCHANGED <<fillVars, detectVars, formVars, ffaVars, mapperVars, loadVars, downloadVars, repeatVars, formDataVars>>

\* The tabs offered: "form" only when formFields is not empty.
AppTabs == (IF Len(apFormFields) > 0 THEN {"form"} ELSE {}) \cup {"mapper", "fill"}

\* tab button onClick
AppSetTab(tab) ==
    /\ apPdf # <<>>
    /\ tab \in AppTabs
    /\ apActiveTab' = tab
    /\ UNCHANGED <<apPdf, apFormFields, apFormPreviewUrl, apDetecting,
                   apFormPreviews, apFormDownloads, apUrls, apSaved, apLast,
                   apClicks>>
    /\ UNCHANGED <<fillVars, detectVars, formVars, ffaVars, mapperVars, loadVars, downloadVars, repeatVars, formDataVars>>

\* The Form Fill tab, with its two buttons, is rendered.
AppFormTabShown == apPdf # <<>> /\ apActiveTab = "form" /\ Len(apFormFields) > 0

\* handleFormPreview up to its await
AppFormPreviewClick ==
    /\ AppFormTabShown
    /\ apClicks < MaxClicks
    /\ apClicks' = apClicks + 1
    /\ apFormPreviews' = Append(apFormPreviews,
          [pdf |-> apPdf[1], formPreviewUrl |-> apFormPreviewUrl])
    /\ UNCHANGED <<apPdf, apFormFields, apActiveTab, apFormPreviewUrl, apDetecting,
                   apFormDownloads, apUrls, apSaved, apLast>>
    /\ UNCHANGED <<fillVars, detectVars, formVars, ffaVars, mapperVars, loadVars, downloadVars, repeatVars, formDataVars>>

\* handleFormPreview after its await; a rejection ends the handler.
AppFormPreviewSettle(i, saveOk) ==
    /\ i \in DOMAIN apFormPreviews
    /\ LET c == apFormPreviews[i] IN
         IF fillFormPdfSettles(c.pdf, <<FALSE>>, saveOk) = "ok"
         THEN /\ apUrls' = Append(Revoke(apUrls, c.formPreviewUrl), 0)
              /\ apFormPreviewUrl' = Len(apUrls) + 1
         ELSE UNCHANGED <<apUrls, apFormPreviewUrl>>
    /\ apFormPreviews' = RemoveAt(apFormPreviews, i)
    /\ UNCHANGED <<apPdf, apFormFields, apActiveTab, apDetecting, apFormDownloads,
                   apSaved, apLast, apClicks>>
    /\ UNCHANGED <<fillVars, detectVars, formVars, ffaVars, mapperVars, loadVars, downloadVars, repeatVars, formDataVars>>

\* handleFormDownload up to its await: fillFormPdf(pdfSource, formData)
AppFormDownloadClick ==
    /\ AppFormTabShown
    /\ apClicks < MaxClicks
    /\ apClicks' = apClicks + 1
    /\ apFormDownloads' = Append(apFormDownloads, [pdf |-> apPdf[1]])
    /\ UNCHANGED <<apPdf, apFormFields, apActiveTab, apFormPreviewUrl, apDetecting,
                   apFormPreviews, apUrls, apSaved, apLast>>
    /\ UNCHANGED <<fillVars, detectVars, formVars, ffaVars, mapperVars, loadVars, downloadVars, repeatVars, formDataVars>>

\* handleFormDownload after its await; a rejection ends the handler.
AppFormDownloadSettle(i, saveOk) ==
    /\ i \in DOMAIN apFormDownloads
    /\ LET outcome == fillFormPdfSettles(apFormDownloads[i].pdf, <<>>, saveOk) IN
         IF outcome = "ok"
         THEN /\ apSaved' = apSaved + 1
              /\ apLast' = [flatten |-> TRUE, calls |-> 1, outcome |-> "downloaded",
                            first |-> "none"]
         ELSE /\ apSaved' = apSaved
              /\ apLast' = [flatten |-> TRUE, calls |-> 1, outcome |-> "failed",
                            first |-> outcome]
    /\ apFormDownloads' = RemoveAt(apFormDownloads, i)
    /\ UNCHANGED <<apPdf, apFormFields, apActiveTab, apFormPreviewUrl, apDetecting,
                   apFormPreviews, apUrls, apClicks>>
    /\ UNCHANGED <<fillVars, detectVars, formVars, ffaVars, mapperVars, loadVars, downloadVars, repeatVars, formDataVars>>

AppNext ==
    \/ \E doc \in ApDocSet : AppLoadPdf(doc)
    \/ \E i \in 1..MaxClicks : AppDetected(i)
    \/ AppChangePdf
    \/ \E tab \in {"form", "mapper", "fill"} : AppSetTab(tab)
    \/ AppFormPreviewClick
    \/ \E i \in 1..MaxClicks, saveOk \in BOOLEAN : AppFormPreviewSettle(i, saveOk)
    \/ AppFormDownloadClick
    \/ \E i \in 1..MaxClicks, saveOk \in BOOLEAN : AppFormDownloadSettle(i, saveOk)

SpecApp == AppInit /\ [][AppNext]_vars

\* C8: every object URL created for a preview has been revoked exactly once
\* unless it is the preview now displayed, and none is revoked twice.
C8_PreviewUrlsReleased ==
    \A u \in DOMAIN apUrls :
      /\ apUrls[u] <= 1
      /\ u # apFormPreviewUrl => apUrls[u] = 1

\* C9: a form download whose fill fails in the flatten step is followed by a
\* second fill without flattening.
C9_FlattenFailureRetried ==
    (apLast.calls > 0 /\ apLast.first = "flatten") => apLast.calls = 2

\* C25: while a PDF is loaded the active tab is one of the tabs offered, so
\* "form" is active only while formFields is not empty and the content of
\* some tab is rendered.
C25_ActiveTabOffered == apPdf # <<>> => apActiveTab \in AppTabs

\* C15: once no getFormFields call is pending, formFields is the field list
\* of the loaded document, and is empty when no document is loaded.
C15_FieldsFollowDocument ==
    apDetecting = <<>> =>
      apFormFields = (IF apPdf = <<>> THEN <<>> ELSE getFormFields(apPdf[1]).fields)

----------------------------------------------------------------------------
(* PdfCoordinateMapper: the click-to-place component.  A user event is one  *)
(* action: the handler, the render it causes and the effects of that        *)
(* render.  Offsets are whole CSS pixels; the x and y of a mapping are kept *)
(* in hundredths of a point, which is what rounding to two decimals yields; *)
(* the scale is a ratio num / den.                                          *)

MaxMarkers == 2

\* scale = 1.5
DefaultScale == [num |-> 3, den |-> 2]

\* Math.round(a / b) for a >= 0, b > 0
MathRound(a, b) == (2 * a + b) \div (2 * b)

\* Math.round(((offset) / scale) * 100) / 100, in hundredths
toPointsUnscaled(offset, scale) == MathRound(offset * 100, 1)
toPoints(offset, scale) == MathRound(offset * 100 * scale.den, scale.num)

\* const newMapping: FieldMapping = { ... }
newMapping(activeField, currentPage, dx, dy, scale) ==
    [fieldName |-> activeField, page |-> currentPage,
     x |-> toPoints(dx, scale), y |-> toPoints(dy, scale)]

\* prev.filter((_, i) => i !== idx), idx counted from 0
filterOutNext(prev, idx) ==
    IF idx + 2 \in DOMAIN prev THEN RemoveAt(prev, idx + 2) ELSE prev
filterOut(prev, idx) ==
    IF idx + 1 \in DOMAIN prev THEN RemoveAt(prev, idx + 1) ELSE prev

\* useEffect(() => { onChange?.(mappings) }, [mappings, onChange]) after a
\* render with a new mappings array
onChangeEffectNever(reported, next) == reported
onChangeEffect(reported, next) == <<next>>

\* Marker: left and top in CSS pixels, as the numerators of fractions with
\* denominator 100 * scale.den
MarkerAt(m, scale) == [left |-> m.x * scale.num, top |-> m.y * scale.num]

\* The parent's saved template against the component's list after a change
staleAfterChange(saved) == IF saved = "none" THEN "none" ELSE "stale"

PmFieldNameSets == {<<>>, <<"name", "date">>}
PmScales == {DefaultScale, [num |-> 2, den |-> 1]}
PmPageCounts == {1, 2}
PmClicks == {[dx |-> 100, dy |-> 50], [dx |-> 7, dy |-> 301]}
PmInitialMappings == {<<>>, <<[fieldName |-> "date", page |-> 3, x |-> 1000, y |-> 2000]>>}

MapperInit ==
    /\ FillIdle /\ DetectIdle /\ FormIdle /\ FfaIdle /\ AppIdle /\ LoadIdle /\ DownloadIdle /\ RepeatIdle /\ FormDataIdle
    /\ pmFieldNames \in PmFieldNameSets
    /\ pmScale \in PmScales
    /\ pmDocPages \in PmPageCounts
    /\ pmMappings \in PmInitialMappings
    /\ pmNumPages = 0
    /\ pmCurrentPage = 1
    /\ pmSelectedIdx = <<>>
    /\ pmActiveField = (IF Len(pmFieldNames) > 0 THEN pmFieldNames[1] ELSE "")
    /\ pmReported = <<pmMappings>>
    /\ pmSaved = "none"
    /\ pmLastClick = NoClick
    /\ pmLastRemove = <<>>

\* handleDocumentLoad
PmDocumentLoad ==
    /\ pmNumPages # pmDocPages
    /\ pmNumPages' = pmDocPages
    /\ pmLastClick' = NoClick /\ pmLastRemove' = <<>>
    /\ UNCHANGED <<pmFieldNames, pmScale, pmDocPages, pmMappings, pmCurrentPage,
                   pmSelectedIdx, pmActiveField, pmReported, pmSaved>>
    /\ UNCHANGED <<fillVars, detectVars, formVars, ffaVars, appVars, loadVars, downloadVars, repeatVars, formDataVars>>

\* handlePageClick
PmPageClick(c) ==
    /\ Len(pmMappings) < MaxMarkers
    /\ pmLastRemove' = <<>>
    /\ IF pmActiveField = ""
       THEN /\ pmLastClick' = [dx |-> c.dx, dy |-> c.dy, added |-> FALSE]
            /\ UNCHANGED <<pmMappings, pmSelectedIdx, pmReported, pmSaved>>
       ELSE LET next == Append(pmMappings,
                          newMapping(pmActiveField, pmCurrentPage, c.dx, c.dy, pmScale))
            IN /\ pmMappings' = next
               /\ pmSelectedIdx' = <<Len(pmMappings)>>
               /\ pmReported' = onChangeEffect(pmReported, next)
               /\ pmLastClick' = [dx |-> c.dx, dy |-> c.dy, added |-> TRUE]
               /\ pmSaved' = staleAfterChange(pmSaved)
    /\ UNCHANGED <<pmFieldNames, pmScale, pmDocPages, pmNumPages, pmCurrentPage,
                   pmActiveField>>
    /\ UNCHANGED <<fillVars, detectVars, formVars, ffaVars, appVars, loadVars, downloadVars, repeatVars, formDataVars>>

\* removeMapping(idx), from a marker of the current page or from a table row
PmRemoveKeepingSelection(idx) ==
    /\ idx + 1 \in DOMAIN pmMappings
    /\ LET next == filterOut(pmMappings, idx) IN
         /\ pmMappings' = next
         /\ pmReported' = onChangeEffect(pmReported, next)
    /\ pmSaved' = staleAfterChange(pmSaved)
    /\ pmLastClick' = NoClick /\ pmLastRemove' = <<idx>>
    /\ UNCHANGED <<pmFieldNames, pmScale, pmDocPages, pmNumPages, pmCurrentPage,
                   pmActiveField, pmSelectedIdx>>
    /\ UNCHANGED <<fillVars, detectVars, formVars, ffaVars, appVars, loadVars, downloadVars, repeatVars, formDataVars>>
PmRemove(idx) ==
    /\ idx + 1 \in DOMAIN pmMappings
    /\ LET next == filterOut(pmMappings, idx) IN
         /\ pmMappings' = next
         /\ pmReported' = onChangeEffect(pmReported, next)
    /\ pmSelectedIdx' = <<>>
    /\ pmSaved' = staleAfterChange(pmSaved)
    /\ pmLastClick' = NoClick /\ pmLastRemove' = <<idx>>
    /\ UNCHANGED <<pmFieldNames, pmScale, pmDocPages, pmNumPages, pmCurrentPage,
                   pmActiveField>>
    /\ UNCHANGED <<fillVars, detectVars, formVars, ffaVars, appVars, loadVars, downloadVars, repeatVars, formDataVars>>

\* Marker onSelect: the markers shown are those of the current page
PmSelectMarker(idx) ==
    /\ idx + 1 \in DOMAIN pmMappings
    /\ pmMappings[idx + 1].page = pmCurrentPage
    /\ pmSelectedIdx' = <<idx>>
    /\ pmLastClick' = NoClick /\ pmLastRemove' = <<>>
    /\ UNCHANGED <<pmFieldNames, pmScale, pmDocPages, pmMappings, pmNumPages,
                   pmCurrentPage, pmActiveField, pmReported, pmSaved>>
    /\ UNCHANGED <<fillVars, detectVars, formVars, ffaVars, appVars, loadVars, downloadVars, repeatVars, formDataVars>>

\* table row onClick
PmSelectRow(idx) ==
    /\ idx + 1 \in DOMAIN pmMappings
    /\ pmSelectedIdx' = <<idx>>
    /\ pmCurrentPage' = pmMappings[idx + 1].page
    /\ pmLastClick' = NoClick /\ pmLastRemove' = <<>>
    /\ UNCHANGED <<pmFieldNames, pmScale, pmDocPages, pmMappings, pmNumPages,
                   pmActiveField, pmReported, pmSaved>>
    /\ UNCHANGED <<fillVars, detectVars, formVars, ffaVars, appVars, loadVars, downloadVars, repeatVars, formDataVars>>

\* Prev button
PmPrev ==
    /\ ~(pmCurrentPage <= 1)
    /\ pmCurrentPage' = pmCurrentPage - 1
    /\ pmLastClick' = NoClick /\ pmLastRemove' = <<>>
    /\ UNCHANGED <<pmFieldNames, pmScale, pmDocPages, pmMappings, pmNumPages,
                   pmSelectedIdx, pmActiveField, pmReported, pmSaved>>
    /\ UNCHANGED <<fillVars, detectVars, formVars, ffaVars, appVars, loadVars, downloadVars, repeatVars, formDataVars>>

\* Next button
PmNextPageOffByOne ==
    /\ ~(pmCurrentPage > pmNumPages)
    /\ pmCurrentPage' = pmCurrentPage + 1
    /\ pmLastClick' = NoClick /\ pmLastRemove' = <<>>
    /\ UNCHANGED <<pmFieldNames, pmScale, pmDocPages, pmMappings, pmNumPages,
                   pmSelectedIdx, pmActiveField, pmReported, pmSaved>>
    /\ UNCHANGED <<fillVars, detectVars, formVars, ffaVars, appVars, loadVars, downloadVars, repeatVars, formDataVars>>
PmNextPage ==
    /\ ~(pmCurrentPage >= pmNumPages)
    /\ pmCurrentPage' = pmCurrentPage + 1
    /\ pmLastClick' = NoClick /\ pmLastRemove' = <<>>
    /\ UNCHANGED <<pmFieldNames, pmScale, pmDocPages, pmMappings, pmNumPages,
                   pmSelectedIdx, pmActiveField, pmReported, pmSaved>>
    /\ UNCHANGED <<fillVars, detectVars, formVars, ffaVars, appVars, loadVars, downloadVars, repeatVars, formDataVars>>

\* field select onChange
PmSetActiveField(f) ==
    /\ f \in Range(pmFieldNames)
    /\ pmActiveField' = f
    /\ pmLastClick' = NoClick /\ pmLastRemove' = <<>>
    /\ UNCHANGED <<pmFieldNames, pmScale, pmDocPages, pmMappings, pmNumPages,
                   pmCurrentPage, pmSelectedIdx, pmReported, pmSaved>>
    /\ UNCHANGED <<fillVars, detectVars, formVars, ffaVars, appVars, loadVars, downloadVars, repeatVars, formDataVars>>

\* handleSave
PmSave ==
    /\ pmSaved' = "current"
    /\ pmLastClick' = NoClick /\ pmLastRemove' = <<>>
    /\ UNCHANGED <<pmFieldNames, pmScale, pmDocPages, pmMappings, pmNumPages,
                   pmCurrentPage, pmSelectedIdx, pmActiveField, pmReported>>
    /\ UNCHANGED <<fillVars, detectVars, formVars, ffaVars, appVars, loadVars, downloadVars, repeatVars, formDataVars>>

MapperNext ==
    \/ PmDocumentLoad
    \/ \E c \in PmClicks : PmPageClick(c)
    \/ \E idx \in 0..MaxMarkers : PmRemove(idx)
    \/ \E idx \in 0..MaxMarkers : PmSelectMarker(idx)
    \/ \E idx \in 0..MaxMarkers : PmSelectRow(idx)
    \/ PmPrev
    \/ PmNextPage
    \/ \E f \in {"name", "date"} : PmSetActiveField(f)
    \/ PmSave

SpecMapper == MapperInit /\ [][MapperNext]_vars

----------------------------------------------------------------------------
(* Properties of PdfCoordinateMapper *)

\* The step handled a click on the page element while a field was active.
PmClickedWithField == pmLastClick' # NoClick /\ pmActiveField # ""

PmLast(list) == list[Len(list)]

C14_OnChangeFollowsList ==
    pmReported = <<pmMappings>>

C14_Witness ==
    /\ pmLastClick.added
    /\ Len(pmMappings) = 2
    /\ pmMappings[1].page # pmMappings[2].page
    /\ pmReported = <<pmMappings>>

\* C19: the mapping a click creates has x and y equal to the click's offsets
\* divided by the scale, rounded to two decimals (half up), and its marker
\* is drawn on the page shown, within half a hundredth of a point times the
\* scale of the click position.
C19_ClickToPoint ==
    [][pmLastClick'.added =>
         LET m == PmLast(pmMappings')
             c == pmLastClick'
             num == pmScale.num
             den == pmScale.den
             mk == MarkerAt(m, pmScale)
         IN /\ 2 * m.x * num <= 2 * c.dx * 100 * den + num
            /\ 2 * m.x * num > 2 * c.dx * 100 * den - num
            /\ 2 * m.y * num <= 2 * c.dy * 100 * den + num
            /\ 2 * m.y * num > 2 * c.dy * 100 * den - num
            /\ m.page = pmCurrentPage'
            /\ 2 * (mk.left - c.dx * 100 * den) \in (0 - num)..num
            /\ 2 * (mk.top - c.dy * 100 * den) \in (0 - num)..num]_vars

C19_Witness ==
    /\ pmLastClick = [dx |-> 100, dy |-> 50, added |-> TRUE]
    /\ pmScale = DefaultScale
    /\ PmLast(pmMappings).x = 6667
    /\ PmLast(pmMappings).y = 3333

\* C28: selectedIdx is null or an index of the mapping list; right after a
\* page click that added a mapping it is the index of that mapping, the
\* last one; right after a removal it is null.
C28_SelectionValid ==
    /\ pmSelectedIdx = <<>> \/ pmSelectedIdx[1] \in 0..(Len(pmMappings) - 1)
    /\ pmLastClick.added => pmSelectedIdx = <<Len(pmMappings) - 1>>
    /\ pmLastRemove # <<>> => pmSelectedIdx = <<>>

C28_Witness ==
    /\ pmLastRemove = <<0>>
    /\ Len(pmMappings) = 1
    /\ pmMappings[1].fieldName = "date"
    /\ pmMappings[1].page = 2
    /\ pmSelectedIdx = <<>>
    /\ pmSaved = "stale"

----------------------------------------------------------------------------
(* loadPdfBytes: the source loader, of which fillPdf.ts and index.ts each   *)
(* hold a copy.  A string is the sequence of its characters, a byte array   *)
(* the sequence of its bytes.                                               *)

ArrayBuffer(bytes) == [t |-> "ArrayBuffer", bytes |-> bytes, chars |-> <<>>]
Str(chars) == [t |-> "string", bytes |-> <<>>, chars |-> chars]

\* source.startsWith(prefix)
startsWith(chars, prefix) ==
    /\ Len(chars) >= Len(prefix)
    /\ SubSeq(chars, 1, Len(prefix)) = prefix

\* The positions of the commas of a string: the cut points of split(",")
Commas(chars) == {i \in DOMAIN chars : chars[i] = ","}
MinOf(S) == CHOOSE i \in S : \A j \in S : i <= j

\* source.split(",")[1]: <<>> (undefined) when the string has no comma
splitLast(chars) ==
    IF Commas(chars) = {} THEN <<>>
    ELSE LET last == CHOOSE i \in Commas(chars) : \A j \in Commas(chars) : j <= i
         IN <<SubSeq(chars, last + 1, Len(chars))>>
splitSecond(chars) ==
    IF Commas(chars) = {} THEN <<>>
    ELSE LET first == MinOf(Commas(chars))
             later == {i \in Commas(chars) : i > first}
             stop == IF later = {} THEN Len(chars) + 1 ELSE MinOf(later)
         IN <<SubSeq(chars, first + 1, stop - 1)>>

Base64Alphabet ==
    <<"A", "B", "C", "D", "E", "F", "G", "H", "I", "J", "K", "L", "M", "N", "O", "P",
      "Q", "R", "S", "T", "U", "V", "W", "X", "Y", "Z", "a", "b", "c", "d", "e", "f",
      "g", "h", "i", "j", "k", "l", "m", "n", "o", "p", "q", "r", "s", "t", "u", "v",
      "w", "x", "y", "z", "0", "1", "2", "3", "4", "5", "6", "7", "8", "9", "+", "/">>

Base64Value(c) == (CHOOSE i \in DOMAIN Base64Alphabet : Base64Alphabet[i] = c) - 1

\* The bytes of a run of base64 characters: 4 characters give 3 bytes, a
\* rest of 3 gives 2 and a rest of 2 gives 1.
RECURSIVE Base64Bytes(_)
Base64Bytes(cs) ==
    IF Len(cs) < 2 THEN <<>>
    ELSE LET v1 == Base64Value(cs[1])
             v2 == Base64Value(cs[2])
             b1 == v1 * 4 + v2 \div 16
         IN IF Len(cs) = 2 THEN <<b1>>
            ELSE LET v3 == Base64Value(cs[3])
                     b2 == (v2 % 16) * 16 + v3 \div 4
                 IN IF Len(cs) = 3 THEN <<b1, b2>>
                    ELSE <<b1, b2, (v3 % 4) * 64 + Base64Value(cs[4])>>
                           \o Base64Bytes(SubSeq(cs, 5, Len(cs)))

\* atob(data) with data <<>> (undefined, converted to "undefined") or
\* <<chars>>: padding at the end of a string of length 4n is dropped; a
\* length of 4n + 1 or a character outside the alphabet throws.  binary[i]
\* is the character of code bytes[i], which charCodeAt(i) gives back.
atob(data) ==
    LET cs == IF data = <<>> THEN <<"u", "n", "d", "e", "f", "i", "n", "e", "d">>
              ELSE data[1]
        n == Len(cs)
        pad == IF n % 4 = 0 /\ n > 0 /\ cs[n] = "="
               THEN (IF cs[n - 1] = "=" THEN 2 ELSE 1)
               ELSE 0
        body == SubSeq(cs, 1, n - pad)
    IN IF Len(body) % 4 = 1 \/ \E i \in DOMAIN body : body[i] \notin Range(Base64Alphabet)
       THEN [threw |-> TRUE, bytes |-> <<>>]
       ELSE [threw |-> FALSE, bytes |-> Base64Bytes(body)]

DataPrefix == <<"d", "a", "t", "a", ":">>

\* loadPdfBytes of fillPdf.ts; net is what fetch(source) and
\* res.arrayBuffer() settle with.
loadPdfBytes(source, net) ==
    IF source.t = "ArrayBuffer"
    THEN [threw |-> FALSE, bytes |-> source.bytes, fetches |-> <<>>]
    ELSE IF startsWith(source.chars, DataPrefix)
    THEN LET r == atob(splitSecond(source.chars)) IN
         [threw |-> r.threw, bytes |-> r.bytes, fetches |-> <<>>]
    ELSE [threw |-> net.threw, bytes |-> net.bytes, fetches |-> <<source.chars>>]

\* loadPdfBytes of index.ts: the same text
loadPdfBytesOfIndex(source, net) == loadPdfBytes(source, net)

MaxTail == 4

LdPrefixes == {DataPrefix, <<"d", "a", "t", "a">>, <<"D", "a", "t", "a", ":">>, <<>>}
LdTailChars == {",", "A", "/", "=", "!"}
LdBuffers == {ArrayBuffer(<<>>), ArrayBuffer(<<37, 80>>)}
LdSources ==
    LdBuffers \cup {Str(p \o t) : p \in LdPrefixes, t \in SeqsUpTo(LdTailChars, MaxTail)}
LdNet == {[threw |-> TRUE, bytes |-> <<>>], [threw |-> FALSE, bytes |-> <<37, 80, 68>>]}

LoadInit ==
    /\ FillIdle /\ DetectIdle /\ FormIdle /\ FfaIdle /\ AppIdle /\ PmIdle /\ DownloadIdle /\ RepeatIdle /\ FormDataIdle
    /\ ldLoader \in {"fillPdf", "index"}
    /\ ldSource \in LdSources
    /\ ldPc = "ready"
    /\ ldBytes = <<>>
    /\ ldFetches = <<>>

CallLoadPdfBytes(net) ==
    /\ ldPc = "ready"
    /\ LET r == IF ldLoader = "fillPdf" THEN loadPdfBytes(ldSource, net)
                ELSE loadPdfBytesOfIndex(ldSource, net)
       IN /\ ldPc' = IF r.threw THEN "rejected" ELSE "resolved"
          /\ ldBytes' = r.bytes
          /\ ldFetches' = r.fetches
    /\ UNCHANGED <<ldLoader, ldSource>>
    /\ UNCHANGED <<fillVars, detectVars, formVars, ffaVars, appVars, mapperVars, downloadVars, repeatVars, formDataVars>>

LoadNext == \E net \in LdNet : CallLoadPdfBytes(net)

SpecLoad == LoadInit /\ [][LoadNext]_vars

----------------------------------------------------------------------------
(* Properties of loadPdfBytes *)

LdIsString == ldSource.t = "string"

\* The source is a string whose first five characters are d a t a :
LdIsDataUri ==
    /\ LdIsString
    /\ Len(ldSource.chars) >= 5
    /\ \A i \in 1..5 : ldSource.chars[i] = DataPrefix[i]

LdFirstComma == MinOf(Commas(ldSource.chars))

\* The characters after the first comma, up to the end of the string
LdAfterFirstComma == SubSeq(ldSource.chars, LdFirstComma + 1, Len(ldSource.chars))

\* The characters after the first comma, up to the next comma if there is one
LdUpToNextComma ==
    LET rest == LdAfterFirstComma IN
    IF Commas(rest) = {} THEN rest ELSE SubSeq(rest, 1, MinOf(Commas(rest)) - 1)

\* The call has settled as atob settles on these characters.
LdDecoded(chars) ==
    /\ ldPc = (IF atob(<<chars>>).threw THEN "rejected" ELSE "resolved")
    /\ ldBytes = atob(<<chars>>).bytes

\* An ArrayBuffer is used as is, and a fetch is made exactly for a string
\* that does not start with "data:".
LdDispatch ==
    /\ ldSource.t = "ArrayBuffer" =>
         (ldPc = "resolved" /\ ldBytes = ldSource.bytes /\ ldFetches = <<>>)
    /\ (LdIsString /\ ~LdIsDataUri) => ldFetches = <<ldSource.chars>>
    /\ LdIsDataUri => ldFetches = <<>>

\* C17 as stated: the dispatch, with a "data:" string base64-decoded from
\* the part after its first comma.
C17_DecodesAfterFirstComma ==
    ldPc # "ready" =>
      /\ LdDispatch
      /\ (LdIsDataUri /\ Commas(ldSource.chars) # {}) => LdDecoded(LdAfterFirstComma)

\* C17 amended: the dispatch, with a "data:" string base64-decoded from the
\* characters between its first comma and the next comma, or the end of the
\* string when there is no other comma; a "data:" string without a comma is
\* rejected.
C17_DecodesSecondPiece ==
    ldPc # "ready" =>
      /\ LdDispatch
      /\ (LdIsDataUri /\ Commas(ldSource.chars) # {}) => LdDecoded(LdUpToNextComma)
      /\ (LdIsDataUri /\ Commas(ldSource.chars) = {}) => ldPc = "rejected"

C17_Witness ==
    /\ ldSource = Str(DataPrefix \o <<",", "A", "/", ",">>)
    /\ ldPc = "resolved"
    /\ ldBytes = <<3>>
    /\ ldFetches = <<>>

----------------------------------------------------------------------------
(* downloadFilledPdf: fill, then hand the bytes to the browser through a    *)
(* temporary link.  The filled document is written as the list of its       *)
(* drawText calls.                                                          *)

\* PDFDocument.load(pdfBytes) accepts bytes that begin with "%P" (of %PDF-)
IsPdf(bytes) == Len(bytes) >= 2 /\ bytes[1] = 37 /\ bytes[2] = 80

\* The pages of the documents used here: their heights
DlPages == <<792, 500>>

\* fillPdf as a caller sees it: loadPdfBytes, PDFDocument.load, the loop
\* over the mappings, save
fillPdfCall(source, mappings, data, options, net) ==
    LET loaded == loadPdfBytes(source, net) IN
    IF loaded.threw \/ ~IsPdf(loaded.bytes)
    THEN [threw |-> TRUE, bytes |-> <<>>]
    ELSE LET r == fillPdf(DlPages, mappings, data, options) IN
         [threw |-> r.threw, bytes |-> r.draws]

\* filename = "filled.pdf"
filenameOfAsGiven(arg) == IF arg = <<>> THEN "" ELSE arg[1]
filenameOf(arg) == IF arg = <<>> THEN "filled.pdf" ELSE arg[1]

Ev(op, arg) == [op |-> op, arg |-> arg]

\* The statements after the await, for the n-th object URL of the page
afterFill(filename, n) ==
    <<Ev("createObjectURL", n), Ev("createElement", filename),
      Ev("appendChild", filename), Ev("click", filename),
      Ev("removeChild", filename), Ev("revokeObjectURL", n)>>

DlSources ==
    {ArrayBuffer(<<37, 80>>), ArrayBuffer(<<>>),
     Str(DataPrefix \o <<",", "J", "V", "A", "=">>), Str(DataPrefix),
     Str(<<"/", "a">>)}
DlDataSet == {<<>>, [k \in {"name"} |-> StrV("Al")]}
DlFilenames == {<<>>, <<"out.pdf">>}
DlOptions == [defaultFontSize |-> <<>>, defaultFontColor |-> <<>>]

DownloadInit ==
    /\ FillIdle /\ DetectIdle /\ FormIdle /\ FfaIdle /\ AppIdle /\ PmIdle /\ LoadIdle /\ RepeatIdle /\ FormDataIdle
    /\ dlSource \in DlSources
    /\ dlMappings \in SeqsUpTo(FpMappingSet, MaxMappings)
    /\ dlData \in DlDataSet
    /\ dlFilename \in DlFilenames
    /\ dlPc = "ready"
    /\ dlFilled = <<>>
    /\ dlLog = <<>>
    /\ dlResult = <<>>

\* downloadFilledPdf up to its await: the fillPdf call settles
DlFill(net) ==
    /\ dlPc = "ready"
    /\ dlPc' = "pending"
    /\ dlFilled' = <<fillPdfCall(dlSource, dlMappings, dlData, DlOptions, net)>>
    /\ UNCHANGED <<dlSource, dlMappings, dlData, dlFilename, dlLog, dlResult>>
    /\ UNCHANGED <<fillVars, detectVars, formVars, ffaVars, appVars, mapperVars,
                   loadVars,
                   repeatVars, formDataVars>>

\* downloadFilledPdf after its await
DlFinish ==
    /\ dlPc = "pending"
    /\ IF dlFilled[1].threw
       THEN /\ dlPc' = "rejected"
            /\ UNCHANGED <<dlLog, dlResult>>
       ELSE /\ dlPc' = "resolved"
            /\ dlLog' = dlLog \o afterFill(filenameOf(dlFilename), 1)
            /\ dlResult' = <<dlFilled[1].bytes>>
    /\ UNCHANGED <<dlSource, dlMappings, dlData, dlFilename, dlFilled>>
    /\ UNCHANGED <<fillVars, detectVars, formVars, ffaVars, appVars, mapperVars,
                   loadVars,
                   repeatVars, formDataVars>>

DownloadNext == (\E net \in LdNet : DlFill(net)) \/ DlFinish

SpecDownload == DownloadInit /\ [][DownloadNext]_vars

\* The entries of the log with this operation
DlOps(op) == {i \in DOMAIN dlLog : dlLog[i].op = op}
DlAt(op) == CHOOSE i \in DlOps(op) : TRUE

\* C18: a call whose fill succeeded has created exactly one object URL,
\* clicked one link carrying the given filename ("filled.pdf" when none was
\* given), then removed the link and revoked that URL, and resolves with the
\* bytes fillPdf produced; a call whose fill failed has created no object
\* URL and triggered no download.
C18_DownloadOnce ==
    /\ dlPc = "resolved" =>
         /\ ~dlFilled[1].threw
         /\ dlResult = <<dlFilled[1].bytes>>
         /\ \A op \in {"createObjectURL", "click", "removeChild", "revokeObjectURL"} :
              Cardinality(DlOps(op)) = 1
         /\ LET c == DlAt("createObjectURL")
                k == DlAt("click")
                r == DlAt("removeChild")
                v == DlAt("revokeObjectURL")
            IN /\ c < k /\ k < r /\ k < v
               /\ dlLog[v].arg = dlLog[c].arg
               /\ dlLog[k].arg = (IF dlFilename = <<>> THEN "filled.pdf" ELSE dlFilename[1])
               /\ dlLog[r].arg = dlLog[k].arg
    /\ dlPc = "rejected" => (dlFilled[1].threw /\ dlLog = <<>> /\ dlResult = <<>>)
    /\ dlPc = "pending" => dlLog = <<>>

C18_Witness ==
    /\ dlPc = "resolved"
    /\ dlFilename = <<>>
    /\ dlSource = Str(DataPrefix \o <<",", "J", "V", "A", "=">>)
    /\ Len(dlResult[1]) = 2
    /\ Len(dlLog) = 6

----------------------------------------------------------------------------
(* fillPdf and fillFormPdf called more than once with the same inputs.      *)
(* Neither module has a variable outside its functions: a call builds its   *)
(* document, form and results from its parameters alone.                    *)

MaxCalls == 2

\* What a new call finds of the previous call's document and results
localsKept(previous) == previous
localsOfNewCall(previous) == <<>>

RepeatInit ==
    \/ FillInit /\ fpOptions.defaultFontSize = <<>> /\ Len(fpMappings) <= 2
    \/ FormInit /\ ffDoc = FfDoc1 /\ ffFieldMap = <<>> /\ Len(ffData) <= 2

\* fillPdf called again
FillPdfAgain ==
    /\ fpPc \in {"saved", "threw"}
    /\ rpCalls < MaxCalls
    /\ rpCalls' = rpCalls + 1
    /\ rpPrevDraws' = <<fpDraws>>
    /\ fpDraws' = localsOfNewCall(fpDraws)
    /\ fpPc' = "ready"
    /\ UNCHANGED <<fpPages, fpMappings, fpData, fpOptions, rpPrevCalls>>
    /\ UNCHANGED <<detectVars, formVars, ffaVars, appVars, mapperVars, loadVars,
                   downloadVars,
                   formDataVars>>

\* fillFormPdf called again
FillFormPdfAgain ==
    /\ ffPc \in {"saved", "threw"}
    /\ rpCalls < MaxCalls
    /\ rpCalls' = rpCalls + 1
    /\ rpPrevCalls' = <<ffCalls>>
    /\ ffCalls' = localsOfNewCall(ffCalls)
    /\ ffForm' = localsOfNewCall(ffForm)
    /\ ffPc' = "ready"
    /\ ffI' = 1
    /\ ffFlattens' = 0
    /\ ffOut' = [fields |-> <<>>, flattened |-> FALSE]
    /\ UNCHANGED <<ffDoc, ffData, ffFieldMap, ffFlattenArg, rpPrevDraws>>
    /\ UNCHANGED <<fillVars, detectVars, ffaVars, appVars, mapperVars, loadVars,
                   downloadVars,
                   formDataVars>>

RepeatNext == FillNext \/ FormNext \/ FillPdfAgain \/ FillFormPdfAgain

SpecRepeat == RepeatInit /\ [][RepeatNext]_vars

----------------------------------------------------------------------------
(* App, "Map Fields" tab: the field list above a PdfCoordinateMapper that    *)
(* is given initialMappings={mappings} and onChange={setMappings}.  App's    *)
(* fieldNames is the component's fieldNames prop (pmFieldNames) and App's    *)
(* mappings is what setMappings last stored (pmReported[1]); pmMappings is   *)
(* the component's own list.                                                 *)

ApFieldNames == {"name", "date"}

FieldsInit ==
    /\ MapperInit
    /\ pmFieldNames = <<"name", "date">>
    /\ pmScale = DefaultScale
    /\ pmDocPages = 2
    /\ pmMappings = <<>>

\* handleRemoveField(name)
handleRemoveField(name) ==
    /\ name \in Range(pmFieldNames)
    /\ pmFieldNames' = SelectSeq(pmFieldNames, LAMBDA f : f # name)
    /\ pmReported' = <<SelectSeq(pmReported[1], LAMBDA m : m.fieldName # name)>>
    /\ pmLastClick' = NoClick /\ pmLastRemove' = <<>>
    /\ UNCHANGED <<pmScale, pmDocPages, pmMappings, pmNumPages, pmCurrentPage,
                   pmSelectedIdx, pmActiveField, pmSaved>>
    /\ UNCHANGED <<fillVars, detectVars, formVars, ffaVars, appVars, loadVars,
                   downloadVars, repeatVars,
                   formDataVars>>

\* handleAddField with newFieldName.trim() = name
handleAddField(name) ==
    /\ ~(name = "" \/ name \in Range(pmFieldNames))
    /\ pmFieldNames' = Append(pmFieldNames, name)
    /\ pmLastClick' = NoClick /\ pmLastRemove' = <<>>
    /\ UNCHANGED <<pmScale, pmDocPages, pmMappings, pmNumPages, pmCurrentPage,
                   pmSelectedIdx, pmActiveField, pmReported, pmSaved>>
    /\ UNCHANGED <<fillVars, detectVars, formVars, ffaVars, appVars, loadVars,
                   downloadVars, repeatVars,
                   formDataVars>>

\* Another tab and back: the component is unmounted, then mounted again
\* with App's current lists.
ApMapperRemount ==
    /\ pmMappings' = pmReported[1]
    /\ pmNumPages' = 0
    /\ pmCurrentPage' = 1
    /\ pmSelectedIdx' = <<>>
    /\ pmActiveField' = (IF Len(pmFieldNames) > 0 THEN pmFieldNames[1] ELSE "")
    /\ pmReported' = onChangeEffect(pmReported, pmReported[1])
    /\ pmLastClick' = NoClick /\ pmLastRemove' = <<>>
    /\ UNCHANGED <<pmFieldNames, pmScale, pmDocPages, pmSaved>>
    /\ UNCHANGED <<fillVars, detectVars, formVars, ffaVars, appVars, loadVars,
                   downloadVars, repeatVars,
                   formDataVars>>

FieldsNext ==
    \/ MapperNext
    \/ \E name \in ApFieldNames : handleRemoveField(name)
    \/ \E name \in ApFieldNames : handleAddField(name)
    \/ ApMapperRemount

SpecFields == FieldsInit /\ [][FieldsNext]_vars

\* C23: every mapping of App's list names a field of App's current
\* fieldNames; in particular a removed field has no mapping in App's list
\* until it is added again.
C23_MappingsNameCurrentFields ==
    \A k \in DOMAIN pmReported[1] :
        pmReported[1][k].fieldName \in Range(pmFieldNames)

----------------------------------------------------------------------------
(* PdfCoordinateMapper mounted without initialMappings: the list starts     *)
(* empty, so every mapping in it was placed by a click on this document.    *)

FreshInit == MapperInit /\ pmMappings = <<>>

SpecFresh == FreshInit /\ [][MapperNext]_vars

\* C27: once the document has loaded with one page or more, the current
\* page is one of its pages and every mapping's page is one of its pages.
C27_PagesInRange ==
    pmNumPages >= 1 =>
      /\ pmCurrentPage \in 1..pmNumPages
      /\ \A k \in DOMAIN pmMappings : pmMappings[k].page \in 1..pmNumPages

C27_Witness ==
    /\ pmNumPages = 2
    /\ pmCurrentPage = 1
    /\ Len(pmMappings) = 2
    /\ pmMappings[1].page = 2
    /\ pmMappings[2].page = 1
    /\ pmSelectedIdx = <<1>>
    /\ pmLastClick.added

----------------------------------------------------------------------------
(* FormFillApp: loading documents and typing into the form.  The preview    *)
(* and download handlers read formData and never set it.                    *)

FaTyped == {"", "Al"}

\* handleFieldChange(fieldName, value), from the input rendered for a field
handleFieldChange(fieldName, value) ==
    /\ FfaFormShown
    /\ \E k \in DOMAIN faFormFields : faFormFields[k].name = fieldName
    /\ faFormData' = [n \in DOMAIN faFormData \cup {fieldName} |->
                        IF n = fieldName THEN value ELSE faFormData[n]]
    /\ UNCHANGED ffaVars
    /\ UNCHANGED <<fillVars, detectVars, formVars, appVars, mapperVars, loadVars,
                   downloadVars, repeatVars>>

FormDataNext ==
    \/ \E doc \in FaDocSet : FfaUpload(doc)
    \/ \E doc \in FaDocSet : FfaDrop(doc)
    \/ \E i \in 1..MaxClicks : FfaDetected(i)
    \/ FfaLoadDifferent
    \/ \E fieldName \in FfKeys, value \in FaTyped : handleFieldChange(fieldName, value)

SpecFormData == FfaInit /\ [][FormDataNext]_vars

\* C29: with a PDF loaded and every field detection completed, the keys of
\* formData are the names of the fields of the loaded document.
C29_FormDataKeysOfLoadedPdf ==
    (faPdf # <<>> /\ faDetecting = <<>> /\ ~getFormFields(faPdf[1]).threw) =>
      DOMAIN faFormData = DOMAIN initialData(getFormFields(faPdf[1]).fields)

====
